---------------------------- MODULE Spec2Model ----------------------------
(*
 * A model of cfind: the store interface (cf_db.c) over its three back-ends
 * (nop_db.c, mem_db.c, sql_db.c + sql_query.c) and the AST driver with its
 * record scoreboard (cf_index.c).
 *
 * The specifications share the variables:
 *  - FileSpec: a client registers files with cf_db_add_file().
 *  - StoreSpec: a client inserts and looks up types and typenames.
 *  - Spec: the indexer ingests translation units into a store.
 *  - FaultSpec: the same over a store whose inserts can fail.
 *  - ReadSpec, BindSpec: rows read from and bound to a statement.
 *  - MemSpec: inserts into an in-memory store whose allocations can fail.
 *  - VecSpec: the in-memory store and index_struct(), one call of the
 *    vector library (cf_vector.c) a step.
 *  - StrSpec: tokens handed to str2uint64() (parse.c).
 *)
EXTENDS Integers, Sequences, FiniteSets, TLC

VARIABLES
    db,       \* cf_db_t: the store behind ctx->db
    ctx,      \* index_ctx_t: file_map, type_map, loc, struct_sb, last_struct
    trapped,  \* TRUE once a cf_assert() has failed (__builtin_trap)
    tu,       \* the translation unit being indexed ("" when between units)
    todo,     \* cursors of the current unit the visitor has yet to reach
    units,    \* the compile commands index_project() has started on
    ncalls,   \* clients: number of store-interface calls made so far;
              \* FaultSpec: calls of index_ast_node() that met a failure
    ret,      \* clients: operation, arguments and result of the last call
    handles,  \* clients: every (path, handle) pair add-file has returned,
              \* every name string peeked since the cursor last moved
    iter,     \* clients: db_typename_iter_t, the typename-find cursor
    env,      \* what the program is built against and run with
    freed     \* the allocations of the store that cf_free() has released

vars ==
    <<db, ctx, trapped, tu, todo, units, ncalls, ret, handles, iter, env,
      freed>>

-----------------------------------------------------------------------------
(* Bounds of the model *)

\* FileSpec: number of add-file calls
MaxAddFile == 3
\* StoreSpec: number of rows inserted per table
MaxRows == 2
\* Spec: number of translation units index_project() walks through
MaxTUs == 2

-----------------------------------------------------------------------------
(* Program constants *)

db_kind_nop == 1
db_kind_mem == 2
db_kind_sql == 3

type_kind_struct == 1
type_kind_union == 2
type_kind_enum == 3

name_kind_direct == 1
name_kind_typedef == 2
name_kind_var == 3

scope_global == 0
scope_func == 1

type_use_decl == 1

struct_name_direct == 1
struct_name_unnamed == 2
struct_name_anon == 3

SQL_DB_BUF_LEN == 4096

\* errno values and engine result codes, by name; OK is the return value 0
OK == "0"
ENOENT == "ENOENT"
EACCES == "EACCES"
ENOMEM == "ENOMEM"
ERANGE == "ERANGE"
EILSEQ == "EILSEQ"
SQLITE_BUSY == "SQLITE_BUSY"
SQLITE_NOMEM == "SQLITE_NOMEM"
SQLITE_READONLY == "SQLITE_READONLY"
EINVAL == "EINVAL"
EMLINK == "EMLINK"
EX_USAGE == "EX_USAGE"
EX_UNAVAILABLE == "EX_UNAVAILABLE"

\* an unset out-parameter
NoRef == 0

-----------------------------------------------------------------------------
(* The file system seen by realpath(3) and access(2).  A path is the
   sequence of its "/"-separated components: ".//t16.h" is <<".", "", "t16.h">>
   and an absolute path starts with the empty component. *)

\* the directory the indexer runs in, and the files it holds
WorkDir == <<"", "cfind", "inputs">>
Files == {"t_a.c", "t_b.c", "t16.h", "h1.h", "h2.h", "h3.h", "h4.h", "h5.h",
          "h6.h", "h7.h", "h8.h", "h9.h", "h10.h", "h11.h", "h12.h", "h13.h",
          "h14.h", "h16.h"}

\* path spellings a client hands to add-file
PathSpellings ==
    { <<"t_a.c">>, <<".", "t_a.c">>, <<"t16.h">>,
      <<".", "", "", "", "", "", "t16.h">>, <<"gone.h">> }

\* realpath(3): the absolute path without "." and empty components; << >>
\* (NULL, errno ENOENT) when the file does not exist
realpath(p) ==
    LET comps == SelectSeq(p, LAMBDA c : c \notin {".", ""})
    IN  IF comps = << >> \/ comps[Len(comps)] \notin Files \/ Len(comps) # 1
        THEN << >>
        ELSE WorkDir \o comps

\* clean_path(): [err, out]
clean_path(path) ==
    IF Len(path) >= SQL_DB_BUF_LEN THEN [err |-> ERANGE, out |-> << >>]
    ELSE IF realpath(path) = << >> THEN [err |-> ENOENT, out |-> << >>]
    ELSE [err |-> OK, out |-> realpath(path)]

-----------------------------------------------------------------------------
(* Helpers on sequences *)

\* indices of s, in order, whose element satisfies P
Matching(s, P(_)) ==
    SelectSeq([i \in 1..Len(s) |-> i], LAMBDA i : P(s[i]))

\* the element of a singleton; the result of a call is bound once as
\* Only({ F(r) : r \in {call} })
Only(S) == CHOOSE x \in S : TRUE

-----------------------------------------------------------------------------
(* The store: cf_db_t.  One record for the three back-ends; db_kind selects
   the fields in use.  Rows keep their location columns; the in-memory
   back-end's parallel loc sequences are kept in locs as well. *)

\* the tables of a database file: create_tables().table_names
table_names ==
    {"file_table", "type_table", "typename", "incomplete_type", "type_use",
     "members"}

new_db(kind, ro) ==
    [ db_kind |-> kind,
      on_disk |-> kind = db_kind_sql,
                            \* the database file exists
      tables |-> IF kind = db_kind_sql THEN table_names ELSE {},
                            \* the tables of the database file
      readonly |-> ro,
      file_id |-> 0,        \* nop_db_t.file_id
      type_id |-> 0,        \* nop_db_t.type_id
      files |-> << >>,      \* file table / mem_db_t.files
      user_types |-> << >>, \* type table / mem_db_t.user_types
      typenames |-> << >>,  \* typename table / mem_db_t.typenames
      members |-> << >>,    \* member table / mem_db_t.members
      type_uses |-> << >>,  \* type_use table / mem_db_t.type_uses
      locs |-> [type_idx |-> << >>, typename_idx |-> << >>,
                member_idx |-> << >>, type_use_idx |-> << >>],
                            \* mem_db_t.locs[MEM_DB_NUM_VEC]
      eng |-> "run",        \* what sqlite3 does to the next lookup statement,
                            \* or which insert the engine (the allocator of
                            \* the in-memory store) fails: "type_insert",
                            \* "typename_insert", "member_insert",
                            \* "type_use_insert" (the entry cannot be
                            \* reserved), "loc_reserve", "str_dup"
      stmts |-> 0 ]         \* statements compiled by insert calls on the
                            \* connection and not finalized

Result(d, e, o) == [db |-> d, err |-> e, out |-> o]

\* compile_query_(): sqlite3_prepare_v2() makes a statement of the connection
compile_query_(d) == [d EXCEPT !.stmts = @ + 1]

\* sqlite3_finalize() destroys it
sqlite3_finalize(d) == [d EXCEPT !.stmts = @ - 1]

(* ---- close ---- *)

\* the vectors of mem_db_t; cf_vec_make() leaves the allocation to the first
\* insertion
MemVectors == {"files", "user_types", "typenames", "members", "type_uses"}

\* what sql_db_open() allocates: the connection and the realpath buffers
SqlAllocations == {"sql", "path_buf[0]", "path_buf[1]"}

\* cf_free() of each allocation in as: [freed, twice], twice the allocations
\* that had been released before
cf_free(fr, as) == [freed |-> fr \cup as, twice |-> fr \cap as]

\* mem_db_close(): every vector is walked and freed; no length and no
\* pointer is reset
mem_db_close(d, fr) == cf_free(fr, {v \in MemVectors : Len(d[v]) > 0})

\* sql_db_close(): sqlite3_close(), whose result is dropped, and cf_free()
\* of both buffers; no pointer is cleared
sql_db_close(d, fr) == cf_free(fr, SqlAllocations)

\* cf_db_close(): [freed, twice]; every back-end returns 0
cf_db_close(d, fr) ==
    CASE d.db_kind = db_kind_nop -> [freed |-> fr, twice |-> {}]
      [] d.db_kind = db_kind_mem -> mem_db_close(d, fr)
      [] d.db_kind = db_kind_sql -> sql_db_close(d, fr)

(* ---- add-file ---- *)

nop_db_add_file(d, path) ==
    Result([d EXCEPT !.file_id = @ + 1], OK, d.file_id + 1)

\* appends unconditionally; the handle is the new length (1-based)
mem_db_add_file(d, path) ==
    Result([d EXCEPT !.files = Append(@, path)], OK, Len(d.files) + 1)

\* lookup_file(): first row whose path == ?1
lookup_file(d, path) ==
    LET hit == Matching(d.files, LAMBDA f : f = path)
    IN  IF hit = << >> THEN [err |-> ENOENT, out |-> NoRef]
        ELSE [err |-> OK, out |-> hit[1]]

\* an insert statement stepped on a connection opened with
\* SQLITE_OPEN_READONLY fails with SQLITE_READONLY
insert_file(d, path) ==
    Only({ IF s.readonly THEN Result(sqlite3_finalize(s), SQLITE_READONLY, NoRef)
           ELSE Result(sqlite3_finalize([s EXCEPT !.files = Append(@, path)]),
                       OK, Len(s.files) + 1) :
           s \in {compile_query_(d)} })

sql_db_add_file(d, path_) ==
    IF d.readonly THEN Result(d, EACCES, NoRef)
    ELSE LET cp == clean_path(path_)
         IN  IF cp.err # OK THEN Result(d, cp.err, NoRef)
             ELSE LET found == lookup_file(d, cp.out)
                  IN  IF found.err = OK THEN Result(d, OK, found.out)
                      ELSE insert_file(d, cp.out)

cf_db_add_file(d, path) ==
    CASE d.db_kind = db_kind_nop -> nop_db_add_file(d, path)
      [] d.db_kind = db_kind_mem -> mem_db_add_file(d, path)
      [] d.db_kind = db_kind_sql -> sql_db_add_file(d, path)

(* ---- typename-lookup ---- *)

nop_db_typename_lookup(d, loc, name) == Result(d, ENOENT, NoRef)

\* linear scan: the first entry with the same name bytes and the same
\* loc.file.index; *out is the entry's 0-based position in db->typenames
mem_db_typename_lookup(d, loc, name) ==
    LET hit == Matching(d.typenames,
                   LAMBDA e : e.name = name.name /\ e.file = loc.file)
    IN  IF hit = << >> THEN Result(d, ENOENT, NoRef)
        ELSE Result(d, OK, hit[1] - 1)

\* typename_lookup_query: SELECT base_type,kind FROM typename
\*   WHERE (file == ?1) AND (name == ?2) AND (scope == 0), rows in rowid order
typename_lookup_query(d, file, name) ==
    Matching(d.typenames,
        LAMBDA e : e.file = file /\ e.name = name /\ e.scope = 0)

\* query_step_one(): SQLITE_ROW -> 0, SQLITE_DONE -> ENOENT, anything else
\* is returned as the engine's own code
query_step_one(d, rows) ==
    IF d.eng = "step" THEN SQLITE_BUSY
    ELSE IF rows = << >> THEN ENOENT
    ELSE OK

\* what sqlite3 may do to a lookup statement: "run" (no failure), fail at
\* "bind", fail at "step", or hand back a "column" of another storage class
Engines == {"run", "bind", "step", "column"}

\* lookup_typename(): bind, step to the first row, convert its columns,
\* compare its kind.  Its statement is finalized at the fail label, which
\* every path reaches: the connection is returned as it was found.
lookup_typename(d, loc, name) ==
    LET rows == typename_lookup_query(d, loc.file, name.name)
        step == query_step_one(d, rows)
    IN  IF d.eng = "bind" THEN Result(d, SQLITE_NOMEM, NoRef)
        ELSE IF step # OK THEN Result(d, step, NoRef)
        ELSE IF d.eng = "column" THEN Result(d, EILSEQ, NoRef)
        ELSE IF d.typenames[rows[1]].kind # name.kind
             THEN Result(d, ENOENT, d.typenames[rows[1]].base_type)
        ELSE Result(d, OK, d.typenames[rows[1]].base_type)

sql_db_typename_lookup(d, loc, name) == lookup_typename(d, loc, name)

cf_db_typename_lookup(d, loc, name) ==
    CASE d.db_kind = db_kind_nop -> nop_db_typename_lookup(d, loc, name)
      [] d.db_kind = db_kind_mem -> mem_db_typename_lookup(d, loc, name)
      [] d.db_kind = db_kind_sql -> sql_db_typename_lookup(d, loc, name)

(* ---- inserts ---- *)

type_row(loc, entry) ==
    [kind |-> entry.kind, complete |-> entry.complete, file |-> loc.file,
     line |-> loc.line]

typename_row(loc, entry) ==
    [kind |-> entry.kind, base_type |-> entry.base_type, name |-> entry.name,
     file |-> loc.file, scope |-> loc.scope, line |-> loc.line]

member_row(loc, entry) ==
    [parent |-> entry.parent, base_type |-> entry.base_type,
     name |-> entry.name, file |-> loc.file]

type_use_row(loc, entry) ==
    [base_type |-> entry.base_type, kind |-> entry.kind, file |-> loc.file]

nop_db_type_insert(d, loc, entry) ==
    Result([d EXCEPT !.type_id = @ + 1], OK, d.type_id + 1)

\* a slot a vector has committed without anything written to it
indeterminate == [indeterminate |-> TRUE]

\* both slots are reserved, written and committed; a failed reservation
\* aborts what was reserved
mem_db_type_insert(d, loc, entry) ==
    IF d.eng \in {"type_insert", "loc_reserve"} THEN Result(d, ENOMEM, NoRef)
    ELSE Result([d EXCEPT !.user_types = Append(@, type_row(loc, entry)),
                          !.locs.type_idx = Append(@, loc)],
                OK, Len(d.user_types) + 1)

\* insert_complete_type(): the new row's rowid
insert_complete_type(d, loc, entry) ==
    Only({ IF s.readonly THEN Result(sqlite3_finalize(s), SQLITE_READONLY, NoRef)
           ELSE IF s.eng = "type_insert"
           THEN Result(sqlite3_finalize(s), SQLITE_BUSY, NoRef)
           ELSE Result(sqlite3_finalize(
                           [s EXCEPT !.user_types = Append(@, type_row(loc, entry))]),
                       OK, Len(s.user_types) + 1) :
           s \in {compile_query_(d)} })

\* sql_db_type_insert() without its test of db->readonly, on an engine that
\* does not enforce the open mode
sql_db_type_insert_unguarded(d, loc, entry) ==
    Result([d EXCEPT !.user_types = Append(@, type_row(loc, entry))],
           OK, Len(d.user_types) + 1)

sql_db_type_insert(d, loc, entry) ==
    IF d.readonly THEN Result(d, EACCES, NoRef)
    ELSE insert_complete_type(d, loc, entry)

cf_db_type_insert(d, loc, entry) ==
    CASE d.db_kind = db_kind_nop -> nop_db_type_insert(d, loc, entry)
      [] d.db_kind = db_kind_mem -> mem_db_type_insert(d, loc, entry)
      [] d.db_kind = db_kind_sql -> sql_db_type_insert(d, loc, entry)

\* fail_copy aborts the location and the entry
mem_db_typename_insert(d, loc, entry) ==
    IF d.eng \in {"typename_insert", "loc_reserve", "str_dup"}
    THEN Result(d, ENOMEM, NoRef)
    ELSE Result([d EXCEPT !.typenames = Append(@, typename_row(loc, entry)),
                          !.locs.typename_idx = Append(@, loc)],
                OK, NoRef)

\* insert_typename(): its fail label returns without sqlite3_finalize()
insert_typename(d, loc, entry) ==
    Only({ IF s.readonly THEN Result(s, SQLITE_READONLY, NoRef)
           ELSE IF s.eng = "typename_insert" THEN Result(s, SQLITE_BUSY, NoRef)
           ELSE Result([s EXCEPT !.typenames = Append(@, typename_row(loc, entry))],
                       OK, NoRef) :
           s \in {compile_query_(d)} })

sql_db_typename_insert(d, loc, entry) ==
    IF d.readonly THEN Result(d, EACCES, NoRef)
    ELSE insert_typename(d, loc, entry)

cf_db_typename_insert(d, loc, entry) ==
    CASE d.db_kind = db_kind_nop -> Result(d, OK, NoRef)
      [] d.db_kind = db_kind_mem -> mem_db_typename_insert(d, loc, entry)
      [] d.db_kind = db_kind_sql -> sql_db_typename_insert(d, loc, entry)

\* fail_copy commits the location, which was not written yet, and aborts
\* the entry
mem_db_member_insert(d, loc, entry) ==
    IF d.eng \in {"member_insert", "loc_reserve"} THEN Result(d, ENOMEM, NoRef)
    ELSE IF d.eng = "str_dup"
    THEN Result([d EXCEPT !.locs.member_idx = Append(@, indeterminate)],
                ENOMEM, NoRef)
    ELSE Result([d EXCEPT !.members = Append(@, member_row(loc, entry)),
                          !.locs.member_idx = Append(@, loc)],
                OK, NoRef)

insert_member(d, loc, entry) ==
    Only({ IF s.readonly THEN Result(sqlite3_finalize(s), SQLITE_READONLY, NoRef)
           ELSE Result(sqlite3_finalize(
                           [s EXCEPT !.members = Append(@, member_row(loc, entry))]),
                       OK, NoRef) :
           s \in {compile_query_(d)} })

sql_db_member_insert(d, loc, entry) ==
    IF d.readonly THEN Result(d, EACCES, NoRef)
    ELSE insert_member(d, loc, entry)

cf_db_member_insert(d, loc, entry) ==
    CASE d.db_kind = db_kind_nop -> Result(d, OK, NoRef)
      [] d.db_kind = db_kind_mem -> mem_db_member_insert(d, loc, entry)
      [] d.db_kind = db_kind_sql -> sql_db_member_insert(d, loc, entry)

mem_db_type_use_insert(d, loc, entry) ==
    IF d.eng \in {"type_use_insert", "loc_reserve"} THEN Result(d, ENOMEM, NoRef)
    ELSE Result([d EXCEPT !.type_uses = Append(@, type_use_row(loc, entry)),
                          !.locs.type_use_idx = Append(@, loc)],
                OK, NoRef)

insert_type_use(d, loc, entry) ==
    Only({ IF s.readonly THEN Result(sqlite3_finalize(s), SQLITE_READONLY, NoRef)
           ELSE Result(sqlite3_finalize(
                           [s EXCEPT !.type_uses = Append(@, type_use_row(loc, entry))]),
                       OK, NoRef) :
           s \in {compile_query_(d)} })

sql_db_type_use_insert(d, loc, entry) ==
    IF d.readonly THEN Result(d, EACCES, NoRef)
    ELSE insert_type_use(d, loc, entry)

cf_db_type_use_insert(d, loc, entry) ==
    CASE d.db_kind = db_kind_nop -> Result(d, OK, NoRef)
      [] d.db_kind = db_kind_mem -> mem_db_type_use_insert(d, loc, entry)
      [] d.db_kind = db_kind_sql -> sql_db_type_use_insert(d, loc, entry)

-----------------------------------------------------------------------------
(* The typename-find cursor: db_typename_iter_t.  A name string a cursor
   hands out is [str, buf]: its bytes and the buffer it is borrowed from. *)

\* the initial index of the in-memory cursor: (size_t)-1
SIZE_MAX == -1

\* it->i + 1 in size_t arithmetic
size_add1(i) == IF i = SIZE_MAX THEN 0 ELSE i + 1

\* a column of a row holding NULL instead of an integer
NullColumn == -2

\* buffers a borrowed string can point into: the store's own heap strings,
\* or the output buffer of a statement after its n-th sqlite3_step()
StoreBuf == 0
cf_str_null == [str |-> "", buf |-> StoreBuf]

\* the bytes of the names and keys of the model
Bytes(name) ==
    CASE name = "foo" -> <<"f", "o", "o">>
      [] name = "FOO" -> <<"F", "O", "O">>
      [] name = "bar" -> <<"b", "a", "r">>
      [] name = "b_r" -> <<"b", "_", "r">>
      [] name = "struct" -> <<"s", "t", "r", "u", "c", "t">>
      [] name = "zed" -> <<"z", "e", "d">>
      [] name = "1" -> <<"1">>
      [] name = "17" -> <<"1", "7">>
      [] name = "1x" -> <<"1", "x">>
      [] OTHER -> << >>

\* sqlite's LIKE folds the case of ASCII letters
ascii_fold(c) ==
    CASE c = "F" -> "f"
      [] c = "O" -> "o"
      [] OTHER -> c

\* the LIKE operator of typename_find_query: "%" matches any run of bytes,
\* "_" any one byte, every other byte itself up to ASCII case
RECURSIVE like(_, _)
like(p, s) ==
    IF p = << >> THEN s = << >>
    ELSE IF Head(p) = "%"
         THEN \E k \in 0..Len(s) : like(Tail(p), SubSeq(s, k + 1, Len(s)))
    ELSE IF s = << >> THEN FALSE
    ELSE /\ Head(p) = "_" \/ ascii_fold(Head(p)) = ascii_fold(Head(s))
         /\ like(Tail(p), Tail(s))

\* memset(out, 0, sizeof(*out)): no cursor
NoStmt == [state |-> "none", row |-> 0, steps |-> 0, key |-> ""]
NoEntry == [kind |-> 0, base_type |-> NoRef, name |-> cf_str_null]
NoIter ==
    [ open |-> FALSE,
      i |-> 0,               \* mem_db_typename_iter_t.i
      key |-> "",            \* mem_db_typename_iter_t.key
      stmt |-> NoStmt,       \* sqlite_db_typename_iter_t.stmt
      cur_name |-> NoEntry,  \* sqlite_db_typename_iter_t.cur_name
      cur_loc |-> [file |-> NoRef, scope |-> scope_global, line |-> 0],
      last |-> "none" ]      \* not a member: what the latest next returned

\* the engine the program is linked against: a statement stepped again after
\* SQLITE_DONE restarts, unless the engine is built with
\* SQLITE_OMIT_AUTORESET
DefaultEnv == [autoreset |-> TRUE]

(* ---- the in-memory cursor ---- *)

mem_db_typename_find(d, name) ==
    [err |-> OK, it |-> [NoIter EXCEPT !.open = TRUE, !.i = SIZE_MAX,
                                       !.key = name]]

\* [it, ret]: the first entry past it.i whose name equals the key
mem_db_typename_iter_next(d, it) ==
    LET hits == { i \in size_add1(it.i)..(Len(d.typenames) - 1) :
                    d.typenames[i + 1].name = it.key }
    IN  IF hits = {} THEN [it |-> it, ret |-> FALSE]
        ELSE [it |-> [it EXCEPT !.i = CHOOSE i \in hits :
                                         \A j \in hits : i <= j],
              ret |-> TRUE]

\* [entry, loc]: the name is borrowed from the store's entry
mem_db_typename_iter_peek(d, it) ==
    LET entry == d.typenames[it.i + 1]
    IN  [entry |-> [kind |-> entry.kind, base_type |-> entry.base_type,
                    name |-> [str |-> entry.name, buf |-> StoreBuf]],
         loc |-> [file |-> entry.file, scope |-> entry.scope,
                  line |-> entry.line]]

mem_db_typename_iter_free(it) == [it EXCEPT !.open = FALSE]

(* ---- the on-disk cursor ---- *)

\* find_typenames(): compile and bind the select
find_typenames(d, name) ==
    [err |-> OK, stmt |-> [state |-> "ready", row |-> 0, steps |-> 0,
                           key |-> name]]

\* sqlite3_step() on the find statement: [stmt, rc].  Rows come in rowid
\* order.
sqlite3_step(d, stmt, e) ==
    LET from == IF stmt.state = "row" THEN stmt.row + 1 ELSE 1
        hits == { i \in from..Len(d.typenames) :
                    like(Bytes(stmt.key), Bytes(d.typenames[i].name)) }
    IN  IF stmt.state = "done" /\ ~e.autoreset
        THEN [stmt |-> stmt, rc |-> "SQLITE_MISUSE"]
        ELSE IF hits = {}
        THEN [stmt |-> [stmt EXCEPT !.state = "done", !.row = 0,
                                    !.steps = @ + 1],
              rc |-> "SQLITE_DONE"]
        ELSE [stmt |-> [stmt EXCEPT !.state = "row",
                            !.row = CHOOSE i \in hits : \A j \in hits : i <= j,
                            !.steps = @ + 1],
              rc |-> "SQLITE_ROW"]

\* iter_next_typename(): query_step_one() on the statement, [stmt, err]
iter_next_typename(d, stmt, e) ==
    Only({ [stmt |-> r.stmt,
            err |-> CASE r.rc = "SQLITE_ROW" -> OK
                      [] r.rc = "SQLITE_DONE" -> ENOENT
                      [] OTHER -> r.rc] : r \in {sqlite3_step(d, stmt, e)} })

\* sqlite3_column_type() of an integer column
sqlite3_column_type(v) ==
    IF v = NullColumn THEN "SQLITE_NULL" ELSE "SQLITE_INTEGER"

\* as iter_get_typename(), but the name is borrowed from the buffer of the
\* row before, which the step to this row has released
iter_get_typename_released(d, stmt) ==
    LET row == d.typenames[stmt.row]
    IN  [err |-> OK,
         entry |-> [kind |-> row.kind, base_type |-> row.base_type,
                    name |-> [str |-> row.name, buf |-> stmt.steps - 1]],
         loc |-> [file |-> row.file, scope |-> row.scope,
                  line |-> row.line]]

\* sql_column_kind2type(): the storage class a column kind is kept in
sql_column_kind2type(kind) ==
    CASE kind = "column_null" -> "SQLITE_NULL"
      [] kind \in {"column_uint32", "column_uint64"} -> "SQLITE_INTEGER"
      [] kind = "column_str" -> "SQLITE_TEXT"

\* select_one_column(): [err, val] of a column [type, val] of the current
\* row.  A column of another storage class is EILSEQ.  A negative integer is
\* reported and converted anyway: (uint32_t)val and (uint64_t)val keep the
\* two's-complement pattern of val, which is written here as val itself (it
\* is the value a caller gets back when it stores uint64_val in an int64_t
\* rowid).  A string of length 0 is the null string.
select_one_column(col, expected_kind) ==
    IF col.type # sql_column_kind2type(expected_kind)
    THEN [err |-> EILSEQ, val |-> 0]
    ELSE [err |-> OK, val |-> col.val]

\* select_serial_row(): [err, vals]; the statement must have as many columns
\* as the description, and the first column that cannot be read ends the
\* read with its error
select_serial_row(cols, kinds) ==
    IF Len(cols) = 0 \/ Len(cols) # Len(kinds)
    THEN [err |-> EILSEQ, vals |-> << >>]
    ELSE IF \E i \in 1..Len(kinds) : select_one_column(cols[i], kinds[i]).err # OK
    THEN [err |-> EILSEQ, vals |-> << >>]
    ELSE [err |-> OK,
          vals |-> [i \in 1..Len(kinds) |-> select_one_column(cols[i], kinds[i]).val]]

\* typename_find_query.output_kinds, for the columns the model keeps:
\* name, kind, base_type, file, scope, line
typename_find_outputs ==
    << "column_str", "column_uint32", "column_uint64", "column_uint64",
       "column_uint32", "column_uint32" >>

\* the output columns of the row a find statement is at
stmt_columns(d, stmt) ==
    LET row == d.typenames[stmt.row]
    IN  << [type |-> "SQLITE_TEXT", val |-> row.name] >>
        \o [i \in 1..5 |->
              [type |-> sqlite3_column_type(
                            <<row.kind, row.base_type, row.file, row.scope,
                              row.line>>[i]),
               val |-> <<row.kind, row.base_type, row.file, row.scope,
                         row.line>>[i]]]

\* iter_get_typename(): exec_find_typename_query() over select_serial_row();
\* [err, entry, loc].  The name is borrowed from the statement.
iter_get_typename(d, stmt) ==
    Only({ IF r.err # OK
           THEN [err |-> r.err, entry |-> NoEntry,
                 loc |-> [file |-> NoRef, scope |-> scope_global, line |-> 0]]
           ELSE [err |-> OK,
                 entry |-> [kind |-> r.vals[2], base_type |-> r.vals[3],
                            name |-> [str |-> r.vals[1], buf |-> stmt.steps]],
                 loc |-> [file |-> r.vals[4], scope |-> r.vals[5],
                          line |-> r.vals[6]]] :
           r \in {select_serial_row(stmt_columns(d, stmt),
                                    typename_find_outputs)} })

sanitize_typename_kind(kind) ==
    kind \in {name_kind_direct, name_kind_typedef, name_kind_var}

\* (0 < rowid) && (rowid < INT64_MAX); no row of the model reaches INT64_MAX
sanitize_rowid(rowid) == 0 < rowid

sanitize_typename(name) ==
    /\ sanitize_typename_kind(name.kind)
    /\ sanitize_rowid(name.base_type)
    /\ name.name.str # ""

sql_db_typename_find(d, name) ==
    Only({ [err |-> r.err,
            it |-> IF r.err = OK
                   THEN [NoIter EXCEPT !.open = TRUE, !.stmt = r.stmt]
                   ELSE NoIter] : r \in {find_typenames(d, name)} })

\* [it, ret]: the borrow of cur_name.name ends, the statement advances, and
\* the row is kept in cur_name unless it cannot be read
sql_db_typename_iter_next(d, it, e) ==
    Only({ IF r.err # OK
           THEN [it |-> [it EXCEPT !.cur_name.name = cf_str_null,
                                   !.stmt = r.stmt],
                 ret |-> FALSE]
           ELSE Only({ IF g.err # OK
                       THEN [it |-> [it EXCEPT !.cur_name.name = cf_str_null,
                                               !.stmt = r.stmt],
                             ret |-> FALSE]
                       ELSE [it |-> [it EXCEPT !.cur_name = g.entry,
                                               !.cur_loc = g.loc,
                                               !.stmt = r.stmt],
                             ret |-> sanitize_typename(g.entry)] :
                         g \in {iter_get_typename(d, r.stmt)} }) :
             r \in {iter_next_typename(d, it.stmt, e)} })

sql_db_typename_iter_peek(d, it) ==
    [entry |-> it.cur_name, loc |-> it.cur_loc]

\* free_typenames(): sqlite3_finalize()
sql_db_typename_iter_free(it) ==
    [it EXCEPT !.open = FALSE, !.stmt.state = "none"]

(* ---- the interface ---- *)

nop_db_typename_find(d, name) == [err |-> "ENOTSUP", it |-> NoIter]

cf_db_typename_find(d, name) ==
    CASE d.db_kind = db_kind_nop -> nop_db_typename_find(d, name)
      [] d.db_kind = db_kind_mem -> mem_db_typename_find(d, name)
      [] d.db_kind = db_kind_sql -> sql_db_typename_find(d, name)

db_typename_iter_next(d, it, e) ==
    CASE d.db_kind = db_kind_mem -> mem_db_typename_iter_next(d, it)
      [] d.db_kind = db_kind_sql -> sql_db_typename_iter_next(d, it, e)

db_typename_iter_peek(d, it) ==
    CASE d.db_kind = db_kind_mem -> mem_db_typename_iter_peek(d, it)
      [] d.db_kind = db_kind_sql -> sql_db_typename_iter_peek(d, it)

db_typename_iter_free(d, it) ==
    CASE d.db_kind = db_kind_mem -> mem_db_typename_iter_free(it)
      [] d.db_kind = db_kind_sql -> sql_db_typename_iter_free(it)

(* ---- member-lookup ---- *)

NoMember == [parent |-> NoRef, base_type |-> NoRef, name |-> "", file |-> NoRef]

nop_db_member_lookup(d, parent, member) == [err |-> ENOENT, out |-> NoMember]

\* linear scan: the first entry of that parent whose name has the same
\* length and bytes
mem_db_member_lookup(d, parent, member) ==
    LET hit == Matching(d.members,
                   LAMBDA e : e.parent = parent /\ e.name = member)
    IN  IF hit = << >> THEN [err |-> ENOENT, out |-> NoMember]
        ELSE [err |-> OK, out |-> d.members[hit[1]]]

\* member_lookup_query: SELECT ... FROM member
\*   WHERE (parent == ?1) AND (name LIKE ?2), rows in rowid order
member_lookup_query(d, parent, member) ==
    Matching(d.members,
        LAMBDA e : e.parent = parent /\ like(Bytes(member), Bytes(e.name)))

\* lookup_member(): exec_lookup_member() over lookup_one_row(), which steps
\* to the first row and no further
lookup_member(d, parent, member) ==
    LET rows == member_lookup_query(d, parent, member)
    IN  IF rows = << >> THEN [err |-> ENOENT, out |-> NoMember]
        ELSE [err |-> OK, out |-> d.members[rows[1]]]

sql_db_member_lookup(d, parent, member) == lookup_member(d, parent, member)

cf_db_member_lookup(d, parent, member) ==
    CASE d.db_kind = db_kind_nop -> nop_db_member_lookup(d, parent, member)
      [] d.db_kind = db_kind_mem -> mem_db_member_lookup(d, parent, member)
      [] d.db_kind = db_kind_sql -> sql_db_member_lookup(d, parent, member)

(* ---- the query tool's searches (search.c) ---- *)

\* the loop "while (db_typename_iter_next(&iter))" of find_one_type() after
\* its first entry: OK when every further entry refers to id, EMLINK at the
\* first that does not
RECURSIVE check_remaining(_, _, _, _)
check_remaining(d, it, e, id) ==
    Only({ IF ~n.ret THEN OK
           ELSE IF db_typename_iter_peek(d, n.it).entry.base_type # id
           THEN "EMLINK"
           ELSE check_remaining(d, n.it, e, id) :
             n \in {db_typename_iter_next(d, it, e)} })

\* find_one_type() for a name without elaboration: [err, out]
find_one_type(d, name, e) ==
    Only({ IF f.err # OK THEN [err |-> f.err, out |-> NoRef]
           ELSE Only({ IF ~n.ret THEN [err |-> ENOENT, out |-> NoRef]
                       ELSE Only({ [err |-> c,
                                    out |-> IF c = OK THEN id ELSE NoRef] :
                                     id \in {db_typename_iter_peek(d, n.it)
                                                .entry.base_type},
                                     c \in {check_remaining(d, n.it, e,
                                              db_typename_iter_peek(d, n.it)
                                                 .entry.base_type)} }) :
                         n \in {db_typename_iter_next(d, f.it, e)} }) :
             f \in {cf_db_typename_find(d, name)} })

\* a line of the tool's output: what it says, a row id and a name
Line(text, id, name) == [text |-> text, id |-> id, name |-> name]

\* name_elab_t
name_none == "none"

\* lookup_file_id(), under cf_db_file_lookup(): the row with id == ?1
lookup_file_id(d, rowid) ==
    IF rowid \in 1..Len(d.files) THEN [err |-> OK, out |-> d.files[rowid]]
    ELSE [err |-> ENOENT, out |-> << >>]

\* lookup_type_entry(), under cf_db_type_lookup(): the row with typeid == ?1
lookup_type_entry(d, rowid) ==
    IF rowid \in 1..Len(d.user_types)
    THEN [err |-> OK, out |-> d.user_types[rowid]]
    ELSE [err |-> ENOENT,
          out |-> [kind |-> 0, complete |-> FALSE, file |-> NoRef]]

\* cf_db_type_lookup(): the null store has no entry; the in-memory store
\* takes the id for an index, the on-disk store for a rowid
cf_db_type_lookup(d, id) ==
    IF d.db_kind = db_kind_nop THEN [lookup_type_entry(d, 0) EXCEPT !.err = ENOENT]
    ELSE lookup_type_entry(d, id)

\* lookup_one_type() of the tests: the only entry of name and the type it
\* refers to.  [err, name, name_loc, type]
lookup_one_type(d, name, e) ==
    Only({
      IF f.err # OK
      THEN [err |-> f.err, name |-> NoEntry, name_loc |-> NoIter.cur_loc,
            type |-> lookup_type_entry(d, 0).out]
      ELSE Only({
        IF ~n.ret
        THEN [err |-> ENOENT, name |-> NoEntry, name_loc |-> NoIter.cur_loc,
              type |-> lookup_type_entry(d, 0).out]
        ELSE Only({
          IF db_typename_iter_next(d, n.it, e).ret
          THEN [err |-> EMLINK, name |-> p.entry, name_loc |-> p.loc,
                type |-> lookup_type_entry(d, 0).out]
          ELSE Only({ [err |-> t.err, name |-> p.entry, name_loc |-> p.loc,
                       type |-> t.out] :
                        t \in {cf_db_type_lookup(d, p.entry.base_type)} }) :
            p \in {db_typename_iter_peek(d, n.it)} }) :
          n \in {db_typename_iter_next(d, f.it, e)} }) :
        f \in {cf_db_typename_find(d, name)} })

\* the loop of print_all_typenames(): a line for each entry the cursor
\* yields, until it ends or the file of an entry cannot be resolved
RECURSIVE print_each(_, _, _)
print_each(d, it, e) ==
    Only({ IF ~n.ret THEN [err |-> OK, out |-> << >>]
           ELSE Only({
             Only({ IF f.err # OK THEN [err |-> f.err, out |-> << >>]
                    ELSE Only({ [err |-> rest.err,
                                 out |-> <<Line("typename", p.entry.base_type,
                                                p.entry.name.str)>>
                                         \o rest.out] :
                                  rest \in {print_each(d, n.it, e)} }) :
                      f \in {lookup_file_id(d, p.loc.file)} }) :
               p \in {db_typename_iter_peek(d, n.it)} }) :
             n \in {db_typename_iter_next(d, it, e)} })

\* print_all_typenames(): [err, out]
print_all_typenames(d, name, e) ==
    Only({ IF f.err # OK THEN [err |-> f.err, out |-> << >>]
           ELSE print_each(d, f.it, e) :
             f \in {cf_db_typename_find(d, name.name)} })

\* the loop of find_elab_type(); kind is elab2type_kind(name->kind) and id
\* the type of the first match, 0 before it
RECURSIVE elab_each(_, _, _, _, _)
elab_each(d, it, e, kind, id) ==
    Only({ IF ~n.ret
           THEN [err |-> IF id = 0 THEN ENOENT ELSE OK, out |-> id]
           ELSE Only({
             Only({ IF step.err # OK THEN [err |-> step.err, out |-> NoRef]
                    ELSE elab_each(d, n.it, e, kind, step.id) :
                      step \in {
                        IF p.entry.kind # name_kind_direct
                        THEN [err |-> OK, id |-> id]
                        ELSE Only({
                          IF t.err # OK THEN [err |-> t.err, id |-> id]
                          ELSE IF kind # t.out.kind THEN [err |-> OK, id |-> id]
                          ELSE IF id # 0 /\ p.entry.base_type # id
                          THEN [err |-> EMLINK, id |-> id]
                          ELSE [err |-> OK, id |-> p.entry.base_type] :
                            t \in {lookup_type_entry(d, p.entry.base_type)} })
                      } }) :
               p \in {db_typename_iter_peek(d, n.it)} }) :
             n \in {db_typename_iter_next(d, it, e)} })

\* find_elab_type(): [err, out]
find_elab_type(d, name, e) ==
    Only({ IF f.err # OK THEN [err |-> f.err, out |-> NoRef]
           ELSE Only({ [err |-> r.err,
                        out |-> IF r.err = OK THEN r.out ELSE NoRef] :
                         r \in {elab_each(d, f.it, e,
                                  CASE name.kind = "struct" -> type_kind_struct
                                    [] name.kind = "union" -> type_kind_union
                                    [] name.kind = "enum" -> type_kind_enum,
                                  0)} }) :
             f \in {cf_db_typename_find(d, name.name)} })

\* search_type_core(): [err, id, entry, out]; the branch on name->kind is
\* the head of find_one_type()
search_type_core(d, query, e) ==
    Only({
      IF f.err = ENOENT
      THEN [err |-> f.err, id |-> NoRef, entry |-> lookup_type_entry(d, 0).out,
            out |-> <<Line("no matching type", 0, "")>>]
      ELSE IF f.err = EMLINK
      THEN [err |-> f.err, id |-> NoRef, entry |-> lookup_type_entry(d, 0).out,
            out |-> <<Line("ambiguous typename", 0, "")>>
                    \o print_all_typenames(d, query.name, e).out]
      ELSE IF f.err # OK
      THEN [err |-> f.err, id |-> NoRef, entry |-> lookup_type_entry(d, 0).out,
            out |-> << >>]
      ELSE Only({
        [err |-> t.err, id |-> IF t.err = OK THEN f.out ELSE NoRef,
         entry |-> t.out,
         out |-> IF t.err = OK THEN << >>
                 ELSE <<Line("no type matching id", f.out, "")>>] :
          t \in {lookup_type_entry(d, f.out)} }) :
        f \in { IF query.is_id THEN [err |-> OK, out |-> query.rowid]
                ELSE IF query.name.kind # name_none
                THEN find_elab_type(d, query.name, e)
                ELSE find_one_type(d, query.name.name, e) } })

\* exec_search_type(): [err, out]
exec_search_type(d, query, e) ==
    Only({ IF c.err # OK THEN [err |-> c.err, out |-> c.out]
           ELSE Only({ IF f.err # OK THEN [err |-> f.err, out |-> c.out]
                       ELSE [err |-> OK,
                             out |-> c.out \o <<Line("type", c.id, "")>>] :
                         f \in {lookup_file_id(d, c.entry.file)} }) :
             c \in {search_type_core(d, query, e)} })

\* exec_search_typename(): what print_all_typenames() returns is dropped
exec_search_typename(d, query, e) ==
    [err |-> OK, out |-> print_all_typenames(d, query.name, e).out]

\* exec_search_member(): [err, out]
exec_search_member(d, query, e) ==
    Only({ IF c.err # OK THEN [err |-> c.err, out |-> c.out]
           ELSE Only({
             IF m.err # OK
             THEN [err |-> m.err,
                   out |-> c.out \o <<Line("lookup member", c.id, query.name)>>]
             ELSE Only({ IF f.err # OK THEN [err |-> f.err, out |-> c.out]
                         ELSE [err |-> OK,
                               out |-> c.out \o
                                   <<Line("member", c.id, m.out.name)>>] :
                           f \in {lookup_file_id(d, m.out.file)} }) :
               m \in {cf_db_member_lookup(d, c.id, query.name)} }) :
             c \in {search_type_core(d, query.base, e)} })

(* ---- the query tool's command parser (parse.c).  A command is the
   sequence of the tokens tok_iter_next() cuts it into. ---- *)

Digits == <<"0", "1", "2", "3", "4", "5", "6", "7", "8", "9">>

is_digit(c) == \E i \in 1..Len(Digits) : Digits[i] = c

\* char2int(): the value of a digit
char2int(c) == (CHOOSE i \in 1..Len(Digits) : Digits[i] = c) - 1

\* a uint64_t of the parser is kept as its four 16-bit words, the least
\* significant first, so that ten times a word stays below INT_MAX
uint64_zero == <<0, 0, 0, 0>>

\* __builtin_mul_overflow(val, 10, &val): [overflow, val]; val is the product
\* modulo 2^64, overflow tells that the product is not below 2^64
builtin_mul_overflow(val) ==
    LET p1 == val[1] * 10
        p2 == val[2] * 10 + p1 \div 65536
        p3 == val[3] * 10 + p2 \div 65536
        p4 == val[4] * 10 + p3 \div 65536
    IN  [overflow |-> p4 \div 65536 # 0,
         val |-> <<p1 % 65536, p2 % 65536, p3 % 65536, p4 % 65536>>]

\* val += ones: unsigned addition, modulo 2^64
add_ones(val, ones) ==
    LET s1 == val[1] + ones
        s2 == val[2] + s1 \div 65536
        s3 == val[3] + s2 \div 65536
        s4 == val[4] + s3 \div 65536
    IN  <<s1 % 65536, s2 % 65536, s3 % 65536, s4 % 65536>>

\* the loop of str2uint64() over the bytes: val = val * 10, which fails on
\* overflow, then val += the digit, which fails on a byte that is no digit
RECURSIVE str2uint64_loop(_)
str2uint64_loop(bytes) ==
    IF bytes = << >> THEN [ok |-> TRUE, val |-> uint64_zero]
    ELSE Only({ IF ~r.ok THEN [ok |-> FALSE, val |-> uint64_zero]
                ELSE Only({
                  IF m.overflow \/ ~is_digit(bytes[Len(bytes)])
                  THEN [ok |-> FALSE, val |-> uint64_zero]
                  ELSE [ok |-> TRUE,
                        val |-> add_ones(m.val,
                                         char2int(bytes[Len(bytes)]))] :
                    m \in {builtin_mul_overflow(r.val)} }) :
                  r \in {str2uint64_loop(SubSeq(bytes, 1, Len(bytes) - 1))} })

\* str2uint64() of the bytes of a token: [ok, val]; the empty string is
\* no number
str2uint64(bytes) ==
    IF bytes = << >> THEN [ok |-> FALSE, val |-> uint64_zero]
    ELSE str2uint64_loop(bytes)

\* id > INT64_MAX: bit 63 of id is set
above_INT64_MAX(id) == id[4] >= 32768

\* (int64_t)id of an id that is not above INT64_MAX; the ids of the model's
\* commands are below 2^31
int64_of(id) == id[1] + id[2] * 65536

str2elab(tok) == IF tok \in {"struct", "union", "enum"} THEN tok ELSE name_none

NoNameSpec == [kind |-> name_none, name |-> ""]
NoQuery == [is_id |-> FALSE, rowid |-> 0, name |-> NoNameSpec]

\* parse_name_spec2() of tok with the tokens after it: [err, name, rest]
parse_name_spec2(tok, rest) ==
    IF str2elab(tok) = name_none
    THEN [err |-> OK, name |-> [kind |-> name_none, name |-> tok],
          rest |-> rest]
    ELSE IF rest = << >>
    THEN [err |-> EINVAL, name |-> [kind |-> str2elab(tok), name |-> ""],
          rest |-> rest]
    ELSE [err |-> OK, name |-> [kind |-> str2elab(tok), name |-> Head(rest)],
          rest |-> Tail(rest)]

\* parse_type_search(): [err, query, rest]; what parse_name_spec2() returns
\* is dropped
parse_type_search(toks) ==
    IF toks = << >> THEN [err |-> ENOENT, query |-> NoQuery, rest |-> toks]
    ELSE IF is_digit(Bytes(Head(toks))[1])
    THEN Only({ IF ~n.ok
                THEN [err |-> EINVAL,
                      query |-> [NoQuery EXCEPT !.is_id = TRUE],
                      rest |-> Tail(toks)]
                ELSE IF above_INT64_MAX(n.val)
                THEN [err |-> ERANGE,
                      query |-> [NoQuery EXCEPT !.is_id = TRUE],
                      rest |-> Tail(toks)]
                ELSE [err |-> OK,
                      query |-> [NoQuery EXCEPT !.is_id = TRUE,
                                                !.rowid = int64_of(n.val)],
                      rest |-> Tail(toks)] :
                  n \in {str2uint64(Bytes(Head(toks)))} })
    ELSE Only({ [err |-> OK, query |-> [NoQuery EXCEPT !.name = n.name],
                 rest |-> n.rest] :
                  n \in {parse_name_spec2(Head(toks), Tail(toks))} })

\* parse_name_spec1(), which is parse_typename_search(): [err, name]
parse_name_spec1(toks) ==
    IF toks = << >> THEN [err |-> ENOENT, name |-> NoNameSpec]
    ELSE Only({ [err |-> n.err, name |-> n.name] :
                  n \in {parse_name_spec2(Head(toks), Tail(toks))} })

\* parse_member_search(): [err, base, name]
parse_member_search(toks) ==
    Only({ IF b.err # OK THEN [err |-> b.err, base |-> b.query, name |-> ""]
           ELSE IF b.rest = << >>
           THEN [err |-> ENOENT, base |-> b.query, name |-> ""]
           ELSE [err |-> OK, base |-> b.query, name |-> Head(b.rest)] :
             b \in {parse_type_search(toks)} })

\* command_string2kind()
command_string2kind(tok) ==
    CASE tok \in {"td", "typedecl"} -> "search_type_decl"
      [] tok \in {"tn", "typename"} -> "search_typename"
      [] tok \in {"md", "memberdecl"} -> "search_member_decl"
      [] OTHER -> "none"

\* parse_command(): [err, kind, arg]
parse_command(toks) ==
    IF toks = << >> THEN [err |-> ENOENT, kind |-> "none", arg |-> NoQuery]
    ELSE Only({
      CASE kind = "none" -> [err |-> EINVAL, kind |-> kind, arg |-> NoQuery]
        [] kind = "search_type_decl" ->
             Only({ [err |-> a.err, kind |-> kind, arg |-> a.query] :
                      a \in {parse_type_search(Tail(toks))} })
        [] kind = "search_typename" ->
             Only({ [err |-> a.err, kind |-> kind, arg |-> a] :
                      a \in {parse_name_spec1(Tail(toks))} })
        [] kind = "search_member_decl" ->
             Only({ [err |-> a.err, kind |-> kind, arg |-> a] :
                      a \in {parse_member_search(Tail(toks))} }) :
        kind \in {command_string2kind(Head(toks))} })

\* create_tables(): CREATE TABLE IF NOT EXISTS for each table
create_tables(d) == [d EXCEPT !.tables = @ \cup table_names]

\* sql_open(): sqlite3_open_v2() with SQLITE_OPEN_CREATE makes the file
\* when there is none; unless ro, every table the file lacks is created.
\* (No caller of the model passes ro; what the engine answers to
\* SQLITE_OPEN_CREATE | SQLITE_OPEN_READONLY is left out.)
sql_open(d, ro) ==
    IF ro THEN [d EXCEPT !.on_disk = TRUE, !.readonly = TRUE]
    ELSE create_tables([d EXCEPT !.on_disk = TRUE, !.readonly = FALSE])

\* run_one_command() on the database file d: [err, out, freed, db].  The
\* file is opened with ro = false; each parse error is printed;
\* cf_db_close() ends the call.
run_one_command(d0, toks, e) ==
    Only({ Only({ IF q.err # OK
                  THEN [err |-> q.err, out |-> <<Line("can't parse", 0, "")>>,
                        freed |-> cf_db_close(d, {}).freed, db |-> d]
                  ELSE Only({ [err |-> r.err, out |-> r.out,
                               freed |-> cf_db_close(d, {}).freed, db |-> d] :
                         r \in { CASE q.kind = "search_type_decl" ->
                                        exec_search_type(d, q.arg, e)
                                   [] q.kind = "search_typename" ->
                                        exec_search_typename(d, q.arg, e)
                                   [] q.kind = "search_member_decl" ->
                                        exec_search_member(d, q.arg, e) } }) :
                  q \in {parse_command(toks)} }) :
           d \in {sql_open(d0, FALSE)} })

\* main() of cfind: [err, out, freed], err the exit status
cfind_main(d, args, e) ==
    CASE args.opt = "?" ->
           [err |-> EX_USAGE, out |-> <<Line("usage", 0, "")>>, freed |-> {},
            db |-> d]
      [] args.opt \in {"h", "V"} ->
           [err |-> OK, out |-> <<Line(args.opt, 0, "")>>, freed |-> {},
            db |-> d]
      [] ~args.db_path ->
           [err |-> EX_USAGE,
            out |-> <<Line("missing database-file", 0, ""),
                      Line("usage", 0, "")>>,
            freed |-> {}, db |-> d]
      [] args.opt = "i" ->
           [err |-> EX_UNAVAILABLE,
            out |-> <<Line("interactive mode unimplemented", 0, "")>>,
            freed |-> {}, db |-> d]
      [] args.opt = "c" -> run_one_command(d, args.cmd, e)

-----------------------------------------------------------------------------
(* The indexer's context: index_ctx_t *)

\* make_struct_scoreboard(): the empty scoreboard
make_struct_scoreboard ==
    [ path |-> << >>,       \* path.parent_stack: cids being recursed into
      current_parent_stack |-> << >>,
      loc |-> [file |-> NoRef, scope |-> scope_global, line |-> 0],
      new_types |-> << >>,
      members |-> << >>,
      type_uses |-> << >>,
      unnamed_types |-> << >> ]

\* reset_struct_scoreboard(): stacks, vectors and the map are emptied; loc
\* is left as it is
reset_struct_scoreboard(sb) == [make_struct_scoreboard EXCEPT !.loc = sb.loc]

\* make_index_ctx(): empty maps, zeroed location, empty scoreboard
make_index_ctx ==
    [ file_map |-> << >>,
      type_map |-> << >>,
      loc |-> [file |-> NoRef, scope |-> scope_global, line |-> 0],
      struct_sb |-> make_struct_scoreboard,
      last_struct |-> 0 ]

-----------------------------------------------------------------------------
(* cf_map8_t: a vector of (key, value) entries.  Duplicates of a key are
   allowed; the first entry with the key shadows the others. *)

cf_map8_find(map, key) == Matching(map, LAMBDA e : e.key = key)

cf_map8_has(map, key) == cf_map8_find(map, key) # << >>

\* the value cf_map8_lookup() writes to *out (0 when it returns false)
cf_map8_lookup(map, key) ==
    IF cf_map8_has(map, key) THEN map[cf_map8_find(map, key)[1]].value ELSE 0

\* cf_vec_remove() of the first entry with the key: later entries move down
cf_map8_remove(map, key) ==
    IF ~cf_map8_has(map, key) THEN map
    ELSE LET i == cf_map8_find(map, key)[1]
         IN  SubSeq(map, 1, i - 1) \o SubSeq(map, i + 1, Len(map))

\* cf_map8_reserve() + cf_map8_commit()
cf_map8_add(map, key, value) == Append(map, [key |-> key, value |-> value])

-----------------------------------------------------------------------------
(* The front end: what libclang shows of a translation unit.  A cursor has
   a kind, an identity (cid, compared by clang_equalCursors), the identity of
   the canonical type it declares or has (type, 0 when that type is neither
   a record nor an enum), a spelling, and its children in visiting order.
   Implicit declarations are not visited.  A declarator whose type is
   defined inline has that definition as its child. *)

Cursor(kind, cid, type, name, anon, kids) ==
    [kind |-> kind, cid |-> cid, type |-> type, name |-> name,
     anon |-> anon, kids |-> kids, def |-> TRUE]

\* struct tag { kids }, or struct { kids } when tag = ""
StructDecl(type, tag, kids) == Cursor("StructDecl", type, type, tag, FALSE, kids)
UnionDecl(type, tag, kids) == Cursor("UnionDecl", type, type, tag, FALSE, kids)
\* a C11 anonymous member: struct { kids }; inside a record
AnonStructDecl(type, kids) == Cursor("StructDecl", type, type, "", TRUE, kids)
FieldDecl(name, type, kids) == Cursor("FieldDecl", 0, type, name, FALSE, kids)
TypedefDecl(name, type, kids) == Cursor("TypedefDecl", 0, type, name, FALSE, kids)
VarDecl(name, type, kids) == Cursor("VarDecl", 0, type, name, FALSE, kids)
FunctionDecl(name) == Cursor("FunctionDecl", 0, 0, name, FALSE, << >>)
\* struct tag; a declaration of its own (cid) of the type, without a body
ForwardDecl(cid, type, tag) ==
    [Cursor("StructDecl", cid, type, tag, FALSE, << >>) EXCEPT !.def = FALSE]

\* clang_visitChildren() order: a cursor, then its children, then its
\* siblings; each entry carries its parent's cid, its depth and its CXFile
RECURSIVE Preorder(_, _, _, _)
Preorder(cursors, parent, depth, file) ==
    IF cursors = << >> THEN << >>
    ELSE LET c == Head(cursors)
         IN  << [kind |-> c.kind, cid |-> c.cid, type |-> c.type,
                 name |-> c.name, anon |-> c.anon, parent |-> parent,
                 depth |-> depth, file |-> file, def |-> c.def, pos |-> 0,
                 complete |-> TRUE] >>
             \o Preorder(c.kids, c.cid, depth + 1, file)
             \o Preorder(Tail(cursors), parent, depth, file)

\* what the parsed unit knows of each cursor.  pos, clang_getCursorExtent():
\* where the cursor starts, line and column as one number; a tag declaration
\* starts at its keyword wherever the visitor meets it, every other cursor
\* has a position of its own.  complete, clang_Type_getAlignOf(): the type
\* of a tag declaration is complete when the unit defines it, before or
\* after the declaration.
Positioned(entries) ==
    [i \in 1..Len(entries) |->
        [entries[i] EXCEPT
           !.pos = IF entries[i].kind \in {"StructDecl", "UnionDecl", "EnumDecl"}
                   THEN entries[i].cid
                   ELSE 100 + i,
           !.complete = \E j \in 1..Len(entries) :
                           /\ entries[j].kind = entries[i].kind
                           /\ entries[j].type = entries[i].type
                           /\ entries[j].def]]

\* the entries after the first that lie below it
RECURSIVE Descendants(_, _)
Descendants(rest, depth) ==
    IF rest = << >> \/ Head(rest).depth <= depth THEN << >>
    ELSE <<Head(rest)>> \o Descendants(Tail(rest), depth)

(* Headers of the corpus.  The canonical types of a unit are numbered from
   11: a clang_type_t is a pointer and never a small row number. *)

\* typedef struct { unsigned long word; } spinlock_t;
\* void spin_lock(spinlock_t *lock);
T16 ==
    LET s == StructDecl(11, "", <<FieldDecl("word", 0, << >>)>>)
    IN  << s, TypedefDecl("spinlock_t", 11, <<s>>), FunctionDecl("spin_lock") >>

\* struct foo { int a; };  typedef struct foo foo;
H1 ==
    << StructDecl(11, "foo", <<FieldDecl("a", 0, << >>)>>),
       TypedefDecl("foo", 11, << >>) >>

\* typedef struct { int b; } foo;  struct foo { int a; };
H2 ==
    LET s == StructDecl(11, "", <<FieldDecl("b", 0, << >>)>>)
    IN  << s, TypedefDecl("foo", 11, <<s>>),
           StructDecl(12, "foo", <<FieldDecl("a", 0, << >>)>>) >>

\* struct A { struct { int i; int j; }; int k; };
H3 ==
    << StructDecl(11, "A",
         << AnonStructDecl(12, << FieldDecl("i", 0, << >>),
                                  FieldDecl("j", 0, << >>) >>),
            FieldDecl("k", 0, << >>) >>) >>

\* struct A { struct { int x; } inst; };
H4 ==
    LET s == StructDecl(12, "", <<FieldDecl("x", 0, << >>)>>)
    IN  << StructDecl(11, "A", << s, FieldDecl("inst", 12, <<s>>) >>) >>

\* struct { int a; } g;
H5 ==
    LET s == StructDecl(11, "", <<FieldDecl("a", 0, << >>)>>)
    IN  << s, VarDecl("g", 11, <<s>>) >>

\* typedef struct foo { int a; } foo_t;
H6 ==
    LET s == StructDecl(11, "foo", <<FieldDecl("a", 0, << >>)>>)
    IN  << s, TypedefDecl("foo_t", 11, <<s>>) >>

\* struct a { int x; };  typedef struct a t1;  typedef struct a t2;
\* struct foo { int y; };  typedef struct { int b; } foo;  typedef foo bar;
H7 ==
    LET s == StructDecl(13, "", <<FieldDecl("b", 0, << >>)>>)
    IN  << StructDecl(11, "a", <<FieldDecl("x", 0, << >>)>>),
           TypedefDecl("t1", 11, << >>), TypedefDecl("t2", 11, << >>),
           StructDecl(12, "foo", <<FieldDecl("y", 0, << >>)>>),
           s, TypedefDecl("foo", 13, <<s>>), TypedefDecl("bar", 13, << >>) >>

\* typedef struct { struct { int a; } bar; int c; } foo_t;
T17 ==
    LET n == StructDecl(12, "", <<FieldDecl("a", 0, << >>)>>)
        s == StructDecl(11, "", << n, FieldDecl("bar", 12, <<n>>),
                                   FieldDecl("c", 0, << >>) >>)
    IN  << s, TypedefDecl("foo_t", 11, <<s>>) >>

\* struct A { struct B { int x; } b; union { int u; } v; int y; };
H8 ==
    LET b == StructDecl(12, "B", <<FieldDecl("x", 0, << >>)>>)
        u == UnionDecl(13, "", <<FieldDecl("u", 0, << >>)>>)
    IN  << StructDecl(11, "A", << b, FieldDecl("b", 12, <<b>>),
                                  u, FieldDecl("v", 13, <<u>>),
                                  FieldDecl("y", 0, << >>) >>) >>

\* struct A { struct B { struct { int i; }; int x; } b; union { int u; }; int k; };
H10 ==
    LET b == StructDecl(12, "B",
                 << AnonStructDecl(13, <<FieldDecl("i", 0, << >>)>>),
                    FieldDecl("x", 0, << >>) >>)
    IN  << StructDecl(11, "A",
             << b, FieldDecl("b", 12, <<b>>),
                Cursor("UnionDecl", 14, 14, "", TRUE, <<FieldDecl("u", 0, << >>)>>),
                FieldDecl("k", 0, << >>) >>) >>

\* struct z { int q; };  typedef struct { int b; } A;
\* struct A { struct { int i; }; int k; };
H11 ==
    LET s == StructDecl(12, "", <<FieldDecl("b", 0, << >>)>>)
    IN  << StructDecl(11, "z", <<FieldDecl("q", 0, << >>)>>),
           s, TypedefDecl("A", 12, <<s>>),
           StructDecl(13, "A",
             << AnonStructDecl(14, <<FieldDecl("i", 0, << >>)>>),
                FieldDecl("k", 0, << >>) >>) >>

\* struct z { int q; };  struct inst { int r; };
\* struct A { struct { int x; } inst; };
H12 ==
    LET s == StructDecl(14, "", <<FieldDecl("x", 0, << >>)>>)
    IN  << StructDecl(11, "z", <<FieldDecl("q", 0, << >>)>>),
           StructDecl(12, "inst", <<FieldDecl("r", 0, << >>)>>),
           StructDecl(13, "A", << s, FieldDecl("inst", 14, <<s>>) >>) >>

\* struct foo { int a; };
H13 == << StructDecl(11, "foo", <<FieldDecl("a", 0, << >>)>>) >>

\* struct foo;  struct foo { int a; int b; };
H14 ==
    << ForwardDecl(10, 11, "foo"),
       StructDecl(11, "foo", <<FieldDecl("a", 0, << >>),
                              FieldDecl("b", 0, << >>)>>) >>

\* struct z { enum { X } e; int q; };  struct { int a; } *gp;
H16 ==
    LET s == StructDecl(12, "", <<FieldDecl("a", 0, << >>)>>)
        e == Cursor("EnumDecl", 13, 13, "", FALSE, << >>)
    IN  << StructDecl(11, "z", << e, FieldDecl("e", 13, <<e>>),
                                  FieldDecl("q", 0, << >>) >>),
           s, VarDecl("gp", 0, <<s>>) >>

Headers == {"t16.h", "h1.h", "h2.h", "h3.h", "h4.h", "h5.h", "h6.h", "h7.h",
            "h8.h", "h9.h", "h10.h", "h11.h", "h12.h", "h13.h", "h14.h",
            "h16.h"}

HeaderDecls(h) ==
    CASE h = "t16.h" -> T16
      [] h = "h1.h" -> H1
      [] h = "h2.h" -> H2
      [] h = "h3.h" -> H3
      [] h = "h4.h" -> H4
      [] h = "h5.h" -> H5
      [] h = "h6.h" -> H6
      [] h = "h7.h" -> H7
      [] h = "h8.h" -> H8
      [] h = "h9.h" -> T17
      [] h = "h10.h" -> H10
      [] h = "h11.h" -> H11
      [] h = "h12.h" -> H12
      [] h = "h13.h" -> H13
      [] h = "h14.h" -> H14
      [] h = "h16.h" -> H16

\* the sources of the compilation database: t_a.c holds  #include "H",
\* t_b.c holds  #include ".//////H"
Mains == {"t_a.c", "t_b.c"}

IncludeSpelling(main, h) ==
    IF main = "t_a.c" THEN <<h>> ELSE <<".", "", "", "", "", "", h>>

-----------------------------------------------------------------------------
(* The record scoreboard: staging of one top-level record (cf_index.c).
   The operators below work on a machine m = [db, ctx, trapped]. *)

Recurse == "CXChildVisit_Recurse"
Continue == "CXChildVisit_Continue"

is_tag(c) == c.kind \in {"StructDecl", "UnionDecl", "EnumDecl"}

\* type_is_indexable() of the cursor's canonical type (record or enum)
type_is_indexable(c) == c.type # 0

\* user_type_is_indexable(): not an incomplete type
user_type_is_indexable(c) == c.complete

\* cursor_is_indexable(): tag declarations of complete types, typedefs and
\* variables of record or enum type
cursor_is_indexable(c) ==
    CASE is_tag(c) -> user_type_is_indexable(c)
      [] c.kind \in {"TypedefDecl", "VarDecl"} -> type_is_indexable(c)
      [] OTHER -> FALSE

extract_type_kind(c) ==
    CASE c.kind = "StructDecl" -> type_kind_struct
      [] c.kind = "UnionDecl" -> type_kind_union
      [] c.kind = "EnumDecl" -> type_kind_enum

\* get_struct_name_kind(): anonymous member, else unnamed when the printed
\* declaration starts "struct {" (no tag), else direct
get_struct_name_kind(c) ==
    IF c.anon THEN struct_name_anon
    ELSE IF c.name = "" THEN struct_name_unnamed
    ELSE struct_name_direct

NoName == [kind |-> 0, base_type |-> NoRef, name |-> ""]
NoLoc == [file |-> NoRef, scope |-> scope_global, line |-> 0]

\* update_location() that leaves the line and column as they are
update_location_file_only(cx, c) ==
    IF cf_map8_has(cx.file_map, c.file)
    THEN [cx EXCEPT !.loc.file = cf_map8_lookup(cx.file_map, c.file)]
    ELSE cx

\* update_location(): ctx->loc follows the cursor's file and position when
\* the file map knows the file, and is left alone otherwise
update_location(cx, c) ==
    IF cf_map8_has(cx.file_map, c.file)
    THEN [cx EXCEPT !.loc.file = cf_map8_lookup(cx.file_map, c.file),
                    !.loc.line = c.pos]
    ELSE cx

\* index_struct_record(): stage a type package {type_id, entry, name,
\* loc[0], loc[1]} (loc is a 2-tuple here: loc[1], loc[2]).  FALSE in
\* .ok is the failed cf_assert on an anonymous record outside any record.
index_struct_record(sb, c) ==
    LET kind == get_struct_name_kind(c)
        record == [ type_id |-> c.type,
                    entry |-> [kind |-> extract_type_kind(c), complete |-> TRUE],
                    name |-> IF kind = struct_name_direct
                             THEN [kind |-> name_kind_direct,
                                   base_type |-> NoRef, name |-> c.name]
                             ELSE NoName,
                    loc |-> << sb.loc,
                               IF kind = struct_name_direct THEN sb.loc
                               ELSE NoLoc >> ]
    IN  IF kind = struct_name_anon
        THEN [sb |-> sb, ok |-> sb.current_parent_stack # << >>]
        ELSE [sb |-> [sb EXCEPT
                        !.new_types = Append(@, record),
                        !.unnamed_types =
                            IF kind = struct_name_unnamed
                            THEN cf_map8_add(@, c.type, Len(sb.new_types))
                            ELSE @],
              ok |-> TRUE]

\* build_member_record()
build_member_record(sb, c, parent) ==
    [sb EXCEPT !.members = Append(@,
        [ parent |-> parent.type,
          entry |-> [parent |-> parent.type, base_type |-> c.type,
                     name |-> c.name],
          loc |-> sb.loc ])]

\* maybe_build_typename() that leaves the named type in unnamed_types
maybe_build_typename_kept(sb, c) ==
    IF ~cf_map8_has(sb.unnamed_types, c.type) THEN sb
    ELSE [sb EXCEPT
            !.new_types[cf_map8_lookup(sb.unnamed_types, c.type) + 1].name =
                [kind |-> name_kind_var, base_type |-> NoRef, name |-> c.name]]

\* maybe_build_typename(): a field whose type is still in unnamed_types
\* names that type (extract_member_typename(): kind var, the field's name)
maybe_build_typename(sb, c) ==
    IF ~cf_map8_has(sb.unnamed_types, c.type) THEN sb
    ELSE LET struct_index == cf_map8_lookup(sb.unnamed_types, c.type)
         IN  [sb EXCEPT
                !.unnamed_types = cf_map8_remove(@, c.type),
                !.new_types[struct_index + 1].name =
                    [kind |-> name_kind_var, base_type |-> NoRef,
                     name |-> c.name],
                !.new_types[struct_index + 1].loc[2] = sb.loc]

\* build_member_type_use(): only for fields of record or enum type
build_member_type_use(sb, c, parent) ==
    IF ~type_is_indexable(c) THEN sb
    ELSE [sb EXCEPT !.type_uses = Append(@,
            [ where |-> parent.type,
              entry |-> [base_type |-> c.type, kind |-> type_use_decl],
              loc |-> sb.loc ])]

index_member(sb, c, parent) ==
    build_member_type_use(
        maybe_build_typename(build_member_record(sb, c, parent), c),
        c, parent)

\* index_type_children_cb2(): [sb, ret, ok]
index_type_children_cb2(sb, c) ==
    CASE c.kind \in {"StructDecl", "UnionDecl"} ->
           Only({ [sb |-> r.sb, ret |-> Recurse, ok |-> r.ok] :
                  r \in {index_struct_record(sb, c)} })
      [] c.kind = "FieldDecl" ->
           IF sb.current_parent_stack = << >>
           THEN [sb |-> sb, ret |-> Continue, ok |-> FALSE]
           ELSE [sb |-> index_member(sb, c,
                            sb.current_parent_stack[Len(sb.current_parent_stack)]),
                 ret |-> Continue, ok |-> TRUE]
      [] OTHER -> [sb |-> sb, ret |-> Continue, ok |-> TRUE]

\* new_parent in index_type_children_cb(): the cursor has an indexable
\* type and is not an anonymous record
new_parent(c) == is_tag(c) /\ ~c.anon

\* index_type_children_cb(): location, the real work, then the cursor of a
\* non-anonymous nested record becomes the current parent.  [m, ret]
index_type_children_cb(m, c) ==
    Only({ Only({
        [m |-> [m EXCEPT
                  !.ctx = [cx EXCEPT !.struct_sb =
                      IF r.ret = Recurse /\ new_parent(c)
                      THEN [r.sb EXCEPT !.current_parent_stack = Append(@, c)]
                      ELSE r.sb],
                  !.trapped = ~r.ok],
         ret |-> r.ret] :
        r \in {index_type_children_cb2([cx.struct_sb EXCEPT !.loc = cx.loc], c)} }) :
        cx \in {update_location(m.ctx, c)} })

\* index_struct_finalizer(): pop the current parent when it is the cursor
\* whose children are done
index_struct_finalizer(sb, cid) ==
    LET stack == sb.current_parent_stack
    IN  IF stack # << >> /\ stack[Len(stack)].cid = cid
        THEN [sb EXCEPT !.current_parent_stack = SubSeq(stack, 1, Len(stack) - 1)]
        ELSE sb

\* iterate_children_cb(), ascent: pop path.parent_stack down to the
\* cursor's parent, signalling the finalizer for each popped cursor
RECURSIVE ascend(_, _)
ascend(sb, parent) ==
    IF sb.path = << >> \/ sb.path[Len(sb.path)] = parent THEN sb
    ELSE ascend(index_struct_finalizer(
                    [sb EXCEPT !.path = SubSeq(@, 1, Len(@) - 1)],
                    sb.path[Len(sb.path)]),
                parent)

\* iterate_children_cb() with cb = index_type_children_cb
iterate_children_cb(m, c) ==
    Only({ IF r.ret = Recurse
           THEN [m |-> [r.m EXCEPT !.ctx.struct_sb.path = Append(@, c.cid)],
                 ret |-> Recurse]
           ELSE r :
           r \in {index_type_children_cb(
                      [m EXCEPT !.ctx.struct_sb = ascend(@, c.parent)], c)} })

\* clang_visitChildren() over the entries below a record: an entry below a
\* cursor whose callback returned Continue (depth > skip) is not visited
RECURSIVE visit_children(_, _, _)
visit_children(m, cs, skip) ==
    IF cs = << >> \/ m.trapped THEN m
    ELSE IF skip >= 0 /\ Head(cs).depth > skip
    THEN visit_children(m, Tail(cs), skip)
    ELSE Only({ visit_children(r.m, Tail(cs),
                    IF r.ret = Recurse THEN -1 ELSE Head(cs).depth) :
                r \in {iterate_children_cb(m, Head(cs))} })

\* index_struct_children(): the record is the bottom-most current parent;
\* iterate_children() pushes the root on the path and pops the top after
index_struct_children(m, c, below) ==
    Only({ IF m2.trapped THEN m2
           ELSE [m2 EXCEPT !.ctx.struct_sb.path = SubSeq(@, 1, Len(@) - 1)] :
           m2 \in {visit_children(
                      [m EXCEPT !.ctx.struct_sb.current_parent_stack = Append(@, c),
                                !.ctx.struct_sb.path = Append(@, c.cid)],
                      below, -1)} })

-----------------------------------------------------------------------------
(* Commit of the scoreboard *)

\* type_map_insert() asserts a non-zero type id and a non-zero reference
type_map_insert_ok(ct, type_ref) == ct # 0 /\ type_ref # 0

type_map_insert(map, ct, type_ref) == cf_map8_add(map, ct, type_ref)

\* a faulty translate_struct_type(): the clang type id comes back as the
\* reference
translate_struct_type_untranslated(map, old) ==
    [ok |-> cf_map8_has(map, old), out |-> old]

\* translate_struct_type(): [ok, out]
translate_struct_type(map, old) ==
    [ok |-> cf_map8_has(map, old), out |-> cf_map8_lookup(map, old)]

\* translate_member_type(): NULL (a primitive type) translates to 0
translate_member_type(map1, map2, old) ==
    IF old = 0 THEN [ok |-> TRUE, out |-> NoRef]
    ELSE IF cf_map8_has(map1, old) THEN translate_struct_type(map1, old)
    ELSE translate_struct_type(map2, old)

\* commit_one_struct() that puts the record into new_type_map whether or
\* not its typename was inserted
insert_new_struct_mapped(m, pkg, new_type_map) ==
    Only({ IF ty.err # OK THEN [m |-> m, new_type_map |-> new_type_map]
           ELSE [m |-> [m EXCEPT !.db = cf_db_typename_insert(ty.db, pkg.loc[2],
                                   [pkg.name EXCEPT !.base_type = ty.out]).db],
                 new_type_map |->
                     type_map_insert(new_type_map, pkg.type_id, ty.out)] :
           ty \in {cf_db_type_insert(m.db, pkg.loc[1], pkg.entry)} })

\* commit_one_struct() once the pre-lookup said ENOENT: the type row, then
\* the typename row that references it, then new_type_map
insert_new_struct(m, pkg, new_type_map) ==
    Only({ IF ty.err # OK THEN [m |-> m, new_type_map |-> new_type_map]
           ELSE Only({
               IF nm.err # OK
               THEN [m |-> [m EXCEPT !.db = nm.db], new_type_map |-> new_type_map]
               ELSE [m |-> [m EXCEPT !.db = nm.db],
                     new_type_map |->
                         type_map_insert(new_type_map, pkg.type_id, ty.out)] :
               nm \in {cf_db_typename_insert(ty.db, pkg.loc[2],
                           [pkg.name EXCEPT !.base_type = ty.out])} }) :
           ty \in {cf_db_type_insert(m.db, pkg.loc[1], pkg.entry)} })

\* commit_one_struct(): pre-lookup of the name at loc[1]; a hit goes to
\* ctx->type_map, a miss to insertion.  [m, new_type_map]
commit_one_struct(m, pkg, new_type_map) ==
    Only({ IF found.err = OK
           THEN IF type_map_insert_ok(pkg.type_id, found.out)
                THEN [m |-> [m EXCEPT !.ctx.type_map =
                                type_map_insert(@, pkg.type_id, found.out)],
                      new_type_map |-> new_type_map]
                ELSE [m |-> [m EXCEPT !.trapped = TRUE],
                      new_type_map |-> new_type_map]
           ELSE IF found.err # ENOENT
           THEN [m |-> m, new_type_map |-> new_type_map]
           ELSE insert_new_struct(m, pkg, new_type_map) :
           found \in {cf_db_typename_lookup(m.db, pkg.loc[2], pkg.name)} })

\* first loop of commit_struct_scoreboard(): every staged type that has a
\* name, in staging order
RECURSIVE commit_new_types(_, _)
commit_new_types(s, types) ==
    IF types = << >> \/ s.m.trapped THEN s
    ELSE commit_new_types(
             IF cf_map8_has(s.m.ctx.struct_sb.unnamed_types, Head(types).type_id)
             THEN s
             ELSE commit_one_struct(s.m, Head(types), s.new_type_map),
             Tail(types))

\* commit_one_member() after both translations
commit_one_member(m, pkg, parent, base_type) ==
    [m EXCEPT !.db = cf_db_member_insert(m.db, pkg.loc,
                        [pkg.entry EXCEPT !.parent = parent,
                                          !.base_type = base_type]).db]

\* second loop: the parent must be in new_type_map; the base type may be
\* in either map
RECURSIVE commit_members(_, _, _)
commit_members(m, new_type_map, members) ==
    IF members = << >> THEN m
    ELSE commit_members(
             Only({ IF ~parent.ok \/ ~base.ok THEN m
                    ELSE commit_one_member(m, Head(members), parent.out, base.out) :
                    parent \in {translate_struct_type(new_type_map,
                                    Head(members).parent)},
                    base \in {translate_member_type(m.ctx.type_map, new_type_map,
                                  Head(members).entry.base_type)} }),
             new_type_map, Tail(members))

\* commit_one_type_use()
commit_one_type_use(m, pkg, base_type) ==
    [m EXCEPT !.db = cf_db_type_use_insert(m.db, pkg.loc,
                        [pkg.entry EXCEPT !.base_type = base_type]).db]

\* third loop: the enclosing record must be in new_type_map
RECURSIVE commit_type_uses(_, _, _)
commit_type_uses(m, new_type_map, uses) ==
    IF uses = << >> THEN m
    ELSE commit_type_uses(
             Only({ IF ~cf_map8_has(new_type_map, Head(uses).where) \/ ~base.ok
                    THEN m
                    ELSE commit_one_type_use(m, Head(uses), base.out) :
                    base \in {translate_member_type(new_type_map, m.ctx.type_map,
                                  Head(uses).entry.base_type)} }),
             new_type_map, Tail(uses))

\* commit_struct_scoreboard(): types, members, uses, then new_type_map is
\* merged into ctx->type_map
commit_struct_scoreboard(m) ==
    Only({ IF s.m.trapped THEN s.m
           ELSE [commit_type_uses(
                     commit_members(s.m, s.new_type_map, m.ctx.struct_sb.members),
                     s.new_type_map, m.ctx.struct_sb.type_uses)
                 EXCEPT !.ctx.type_map = @ \o s.new_type_map] :
           s \in {commit_new_types([m |-> m, new_type_map |-> << >>],
                                   m.ctx.struct_sb.new_types)} })

-----------------------------------------------------------------------------
(* The AST driver *)

\* struct_scoreboard_add_name(): the typedef or variable following an
\* unnamed top-level record names new_types[0] at the current location
struct_scoreboard_add_name(m, c) ==
    LET sb == m.ctx.struct_sb
    IN  IF sb.new_types = << >>
           \/ ~cf_map8_has(sb.unnamed_types, sb.new_types[1].type_id)
           \/ cf_map8_lookup(sb.unnamed_types, sb.new_types[1].type_id) # 0
        THEN [m EXCEPT !.trapped = TRUE]
        ELSE [m EXCEPT
                !.ctx.struct_sb.new_types[1].name =
                    [kind |-> IF c.kind = "VarDecl" THEN name_kind_var
                              ELSE name_kind_typedef,
                     base_type |-> NoRef, name |-> c.name],
                !.ctx.struct_sb.new_types[1].loc[2] = m.ctx.loc,
                !.ctx.struct_sb.unnamed_types =
                    cf_map8_remove(@, sb.new_types[1].type_id)]

\* special_index_struct_name(): [m, skip]
special_index_struct_name(m, c) ==
    IF c.kind \in {"VarDecl", "TypedefDecl"} /\ c.type = m.ctx.last_struct
    THEN [m |-> struct_scoreboard_add_name(m, c), skip |-> TRUE]
    ELSE [m |-> m, skip |-> FALSE]

\* index_typedef() without the pre-lookup: the alias is inserted whenever the
\* unit has a reference for its type
index_typedef_unchecked(m, c) ==
    LET record == [kind |-> name_kind_typedef,
                   base_type |-> cf_map8_lookup(m.ctx.type_map, c.type),
                   name |-> c.name]
    IN  IF ~cf_map8_has(m.ctx.type_map, c.type) THEN m
        ELSE [m EXCEPT !.db = cf_db_typename_insert(m.db, m.ctx.loc, record).db]

\* index_typedef(): an alias of a type this unit has a reference for;
\* inserted unless the pre-lookup at ctx->loc finds it or fails
index_typedef(m, c) ==
    LET record == [kind |-> name_kind_typedef,
                   base_type |-> cf_map8_lookup(m.ctx.type_map, c.type),
                   name |-> c.name]
    IN  IF ~cf_map8_has(m.ctx.type_map, c.type) THEN m
        ELSE IF cf_db_typename_lookup(m.db, m.ctx.loc, record).err # ENOENT
        THEN m
        ELSE [m EXCEPT !.db = cf_db_typename_insert(m.db, m.ctx.loc, record).db]

\* the end of index_struct(): a record still in unnamed_types waits for
\* its name, any other is committed at once.  [m, need_name]
index_struct_end(m1, c) ==
    IF m1.trapped THEN [m |-> m1, need_name |-> FALSE]
    ELSE IF m1.ctx.struct_sb.new_types = << >>
            \/ m1.ctx.struct_sb.new_types[1].type_id # c.type
    THEN [m |-> [m1 EXCEPT !.trapped = TRUE], need_name |-> FALSE]
    ELSE IF cf_map8_has(m1.ctx.struct_sb.unnamed_types, c.type)
    THEN [m |-> m1, need_name |-> TRUE]
    ELSE Only({ [m |-> IF m2.trapped THEN m2
                       ELSE [m2 EXCEPT !.ctx.struct_sb = reset_struct_scoreboard(@)],
                 need_name |-> FALSE] :
                m2 \in {commit_struct_scoreboard(m1)} })

\* index_struct(): stage the record and everything under it.  [m, need_name]
index_struct(m, c, below) ==
    Only({ IF m.ctx.struct_sb.new_types # << >> \/ ~rec.ok
           THEN [m |-> [m EXCEPT !.trapped = TRUE], need_name |-> FALSE]
           ELSE index_struct_end(
                    index_struct_children([m EXCEPT !.ctx.struct_sb = rec.sb],
                                          c, below), c) :
           rec \in {index_struct_record(
                        [m.ctx.struct_sb EXCEPT !.loc = m.ctx.loc], c)} })

\* the dispatch at the end of index_ast_node(): [m, ret]
index_dispatch(m, c, below) ==
    CASE is_tag(c) ->
           Only({ [m |-> IF r.need_name
                         THEN [r.m EXCEPT !.ctx.last_struct = c.type]
                         ELSE r.m,
                   ret |-> Continue] :
                  r \in {index_struct(m, c, below)} })
      [] c.kind = "TypedefDecl" -> [m |-> index_typedef(m, c), ret |-> Recurse]
      [] OTHER -> [m |-> m, ret |-> Recurse]

\* index_ast_node() with a record waiting for its name: the cursor names
\* it or not, and the scoreboard is committed and reset.  [m, skip]
index_pending_name(m, c) ==
    Only({ IF sp.m.trapped THEN sp
           ELSE Only({ [m |-> IF cm.trapped THEN cm
                              ELSE [cm EXCEPT
                                      !.ctx.struct_sb = reset_struct_scoreboard(@),
                                      !.ctx.last_struct = 0],
                        skip |-> sp.skip] :
                       cm \in {commit_struct_scoreboard(sp.m)} }) :
           sp \in {special_index_struct_name(m, c)} })

\* index_ast_node(): filter, location, the pending record, then the
\* dispatch unless the cursor was taken as a name.  [m, ret]
index_ast_node(m, c, below) ==
    IF ~cursor_is_indexable(c) THEN [m |-> m, ret |-> Continue]
    ELSE Only({ IF p.m.trapped \/ p.skip THEN [m |-> p.m, ret |-> Continue]
                ELSE index_dispatch(p.m, c, below) :
                p \in { IF m.ctx.last_struct = 0
                        THEN [m |-> [m EXCEPT !.ctx = update_location(@, c)],
                              skip |-> FALSE]
                        ELSE index_pending_name(
                                 [m EXCEPT !.ctx = update_location(@, c)], c) } })

\* index_include_cb(): a file the map does not know is added to the store
\* and mapped; a failed add-file is kept in .error
index_include_cb(s, file) ==
    IF cf_map8_has(s.m.ctx.file_map, file) THEN s
    ELSE Only({ IF r.err # OK THEN [s EXCEPT !.error = r.err]
                ELSE [s EXCEPT !.m.db = r.db,
                               !.m.ctx.file_map = cf_map8_add(@, file, r.out)] :
                r \in {cf_db_add_file(s.m.db, file)} })

\* index_includes(): the callback on every file of the unit.  [m, error]
RECURSIVE index_includes(_, _)
index_includes(s, files) ==
    IF files = << >> THEN s
    ELSE index_includes(index_include_cb(s, Head(files)), Tail(files))

-----------------------------------------------------------------------------
(* Ingestion: index_project() over a compilation database *)

Machine == [db |-> db, ctx |-> ctx, trapped |-> trapped]

Init ==
    /\ \E kind \in {db_kind_nop, db_kind_mem, db_kind_sql} :
         db = new_db(kind, FALSE)
    /\ ctx = make_index_ctx
    /\ trapped = FALSE
    /\ tu = ""
    /\ todo = << >>
    /\ units = << >>
    /\ ncalls = 0
    /\ ret = [op |-> "none", path |-> << >>, file |-> NoRef, name |-> "",
              kind |-> 0, eng |-> "run", err |-> OK, out |-> NoRef]
    /\ handles = {}
    /\ iter = NoIter
    /\ env = DefaultEnv
    /\ freed = {}

\* index_target(): parse the next source, index its includes, and leave its
\* cursors to the visitor.  A failed index_includes() ends index_project().
index_target_upto(n) ==
    /\ tu = ""
    /\ ~trapped
    /\ Len(units) < n
    /\ \E main \in Mains, h \in Headers :
         \E s \in {index_includes([m |-> Machine, error |-> OK],
                        << <<main>>, IncludeSpelling(main, h) >>)} :
             /\ db' = s.m.db
             /\ ctx' = s.m.ctx
             /\ tu' = IF s.error = OK THEN main ELSE "failed"
             /\ todo' = IF s.error = OK
                        THEN Positioned(Preorder(HeaderDecls(h), 0, 0,
                                          IncludeSpelling(main, h)))
                        ELSE << >>
             /\ units' = Append(units, [main |-> main, header |-> h])
    /\ UNCHANGED <<trapped, ncalls, ret, handles, iter, env, freed>>

index_target == index_target_upto(MaxTUs)

\* index_tu(): the visitor reaches the next cursor; after Continue the
\* entries below the cursor are not visited
index_ast_node_ ==
    /\ tu \in Mains
    /\ ~trapped
    /\ todo # << >>
    /\ \E below \in {Descendants(Tail(todo), Head(todo).depth)} :
         \E r \in {index_ast_node(Machine, Head(todo), below)} :
             /\ db' = r.m.db
             /\ ctx' = r.m.ctx
             /\ trapped' = r.m.trapped
             /\ todo' = IF r.ret = Continue
                        THEN SubSeq(todo, 2 + Len(below), Len(todo))
                        ELSE Tail(todo)
    /\ UNCHANGED <<tu, units, ncalls, ret, handles, iter, env, freed>>

\* reset_tu_ctx(): after a unit, the file map and the type map are emptied
reset_tu_ctx ==
    /\ tu \in Mains
    /\ ~trapped
    /\ todo = << >>
    /\ ctx' = [ctx EXCEPT !.file_map = << >>, !.type_map = << >>]
    /\ tu' = ""
    /\ UNCHANGED <<db, trapped, todo, units, ncalls, ret, handles, iter, env, freed>>

Next == index_target \/ index_ast_node_ \/ reset_tu_ctx

Spec == Init /\ [][Next]_vars

-----------------------------------------------------------------------------
(* Ingestion over a store whose inserts can fail: sqlite3_step() answers
   other than SQLITE_DONE for an insert statement, or the in-memory store
   cannot grow its vector (ENOMEM) *)

\* units indexed with failing inserts
MaxFaultTUs == 1
\* calls of index_ast_node() that meet a failure
MaxFaults == 2

\* what the store does during one call of index_ast_node()
Faults == {"run", "type_insert", "typename_insert"}

index_target_faulty == index_target_upto(MaxFaultTUs)

\* index_ast_node() for the next cursor while the store does fault to the
\* inserts of that call; ret keeps the fault and ncalls counts the calls
\* that met one
index_ast_node_faulty ==
    /\ tu \in Mains
    /\ ~trapped
    /\ todo # << >>
    /\ \E fault \in Faults :
         /\ fault # "run" => ncalls < MaxFaults
         /\ ncalls' = IF fault = "run" THEN ncalls ELSE ncalls + 1
         /\ \E below \in {Descendants(Tail(todo), Head(todo).depth)} :
           \E r \in {index_ast_node([Machine EXCEPT !.db.eng = fault],
                                    Head(todo), below)} :
             /\ db' = [r.m.db EXCEPT !.eng = "run"]
             /\ ctx' = r.m.ctx
             /\ trapped' = r.m.trapped
             /\ todo' = IF r.ret = Continue
                        THEN SubSeq(todo, 2 + Len(below), Len(todo))
                        ELSE Tail(todo)
             /\ ret' = [ret EXCEPT !.op = "index_ast_node", !.eng = fault,
                                   !.out = Len(todo)]
    /\ UNCHANGED <<tu, units, handles, iter, env, freed>>

FaultNext == index_target_faulty \/ index_ast_node_faulty \/ reset_tu_ctx

FaultSpec == Init /\ [][FaultNext]_vars

-----------------------------------------------------------------------------
(* Clients of the store interface *)

NoCall ==
    [op |-> "none", path |-> << >>, file |-> NoRef, name |-> "", kind |-> 0,
     eng |-> "run", err |-> OK, out |-> NoRef]

\* back-ends as cf_db_open*() leaves them: (db_kind, readonly)
Backends ==
    { <<db_kind_nop, FALSE>>, <<db_kind_mem, FALSE>>,
      <<db_kind_sql, FALSE>>, <<db_kind_sql, TRUE>> }

ClientInit ==
    /\ \E b \in Backends : db = new_db(b[1], b[2])
    /\ ctx = make_index_ctx
    /\ trapped = FALSE
    /\ tu = ""
    /\ todo = << >>
    /\ units = << >>
    /\ ncalls = 0
    /\ ret = NoCall
    /\ handles = {}
    /\ iter = NoIter
    /\ env = DefaultEnv
    /\ freed = {}

\* a client calls cf_db_add_file(db, p)
AddFile ==
    /\ ncalls < MaxAddFile
    /\ \E p \in PathSpellings :
         \E r \in {cf_db_add_file(db, p)} :
             /\ db' = r.db
             /\ ret' = [NoCall EXCEPT !.op = "add_file", !.path = p,
                                      !.err = r.err, !.out = r.out]
             /\ handles' = IF r.err = OK THEN handles \cup {<<p, r.out>>}
                           ELSE handles
    /\ ncalls' = ncalls + 1
    /\ UNCHANGED <<ctx, trapped, tu, todo, units, iter, env, freed>>

FileNext == AddFile

FileSpec == ClientInit /\ [][FileNext]_vars

\* what a client of StoreSpec passes: two files, two names, the kinds of a
\* tag and of a typedef
ClientLocs == {[file |-> f, scope |-> scope_global, line |-> 0] : f \in {1, 2}}
ClientNames == {"foo", "bar"}
ClientKinds == {name_kind_direct, name_kind_typedef}

\* the latest type reference a type insert has returned
LastTypeRef == IF db.db_kind = db_kind_nop THEN db.type_id ELSE Len(db.user_types)

\* a client calls cf_db_type_insert() for a struct of file 1
TypeInsert ==
    /\ LastTypeRef < MaxRows
    /\ \E r \in {cf_db_type_insert(db, [file |-> 1, scope |-> scope_global, line |-> 0],
                     [kind |-> type_kind_struct, complete |-> TRUE])} :
         /\ db' = r.db
         /\ ret' = [NoCall EXCEPT !.op = "type_insert", !.file = 1,
                                  !.err = r.err, !.out = r.out]
    /\ UNCHANGED <<ctx, trapped, tu, todo, units, ncalls, handles, iter, env, freed>>

\* a client calls cf_db_typename_insert() with a name for the latest type
TypenameInsert ==
    /\ LastTypeRef > 0
    /\ Len(db.typenames) < MaxRows
    /\ \E loc \in ClientLocs, name \in ClientNames, kind \in ClientKinds :
         \E r \in {cf_db_typename_insert(db, loc,
                       [kind |-> kind, base_type |-> LastTypeRef,
                        name |-> name])} :
             /\ db' = r.db
             /\ ret' = [NoCall EXCEPT !.op = "typename_insert",
                                      !.file = loc.file, !.name = name,
                                      !.kind = kind, !.err = r.err]
    /\ UNCHANGED <<ctx, trapped, tu, todo, units, ncalls, handles, iter, env, freed>>

\* a client calls cf_db_typename_lookup(); the engine does eng to the
\* statement
TypenameLookup ==
    /\ \E loc \in ClientLocs, name \in ClientNames, kind \in ClientKinds,
          eng \in Engines :
         \E r \in {cf_db_typename_lookup([db EXCEPT !.eng = eng], loc,
                       [kind |-> kind, base_type |-> NoRef, name |-> name])} :
             ret' = [op |-> "typename_lookup", path |-> << >>,
                     file |-> loc.file, name |-> name, kind |-> kind,
                     eng |-> eng, err |-> r.err, out |-> r.out]
    /\ UNCHANGED <<db, ctx, trapped, tu, todo, units, ncalls, handles, iter,
                   env, freed>>

\* the lookup-then-insert caller: commit_one_struct() on a staged record of
\* type id 11; ret.out is the number of rows it inserted
CommitOneStruct ==
    /\ ~trapped
    /\ LastTypeRef < MaxRows
    /\ Len(db.typenames) < MaxRows
    /\ Len(ctx.type_map) < MaxRows
    /\ \E loc \in ClientLocs, name \in ClientNames, kind \in ClientKinds,
          eng \in Engines :
         \E r \in {commit_one_struct(
                       [db |-> [db EXCEPT !.eng = eng], ctx |-> ctx,
                        trapped |-> trapped],
                       [type_id |-> 11,
                        entry |-> [kind |-> type_kind_struct, complete |-> TRUE],
                        name |-> [kind |-> kind, base_type |-> NoRef,
                                  name |-> name],
                        loc |-> <<loc, loc>>],
                       << >>)} :
             /\ db' = [r.m.db EXCEPT !.eng = "run"]
             /\ ctx' = r.m.ctx
             /\ trapped' = r.m.trapped
             /\ ret' = [op |-> "commit_one_struct", path |-> << >>,
                        file |-> loc.file, name |-> name, kind |-> kind,
                        eng |-> eng, err |-> OK,
                        out |-> Len(r.m.db.user_types) - Len(db.user_types)
                                + Len(r.m.db.typenames) - Len(db.typenames)]
    /\ UNCHANGED <<tu, todo, units, ncalls, handles, iter, env, freed>>

StoreNext == TypeInsert \/ TypenameInsert \/ TypenameLookup \/ CommitOneStruct

StoreSpec == ClientInit /\ [][StoreNext]_vars

-----------------------------------------------------------------------------
(* A client inserting into an on-disk store that an earlier run has filled
   and that is now open read-only.  sql_open() asks sqlite3_open_v2() for
   SQLITE_OPEN_CREATE together with SQLITE_OPEN_READONLY when ro is set, a
   combination the engine leaves undefined: where it is accepted the store
   is read-only. *)

\* the database file of an earlier run over main: one file, one struct and
\* its tag
ExistingStore(ro, main, tag) ==
    [new_db(db_kind_sql, ro) EXCEPT
        !.files = << WorkDir \o <<main>> >>,
        !.user_types = << type_row([file |-> 1, scope |-> scope_global, line |-> 0],
                            [kind |-> type_kind_struct, complete |-> TRUE]) >>,
        !.typenames = << typename_row([file |-> 1, scope |-> scope_global, line |-> 0],
                            [kind |-> name_kind_direct, base_type |-> 1,
                             name |-> tag]) >>]

ExistingStores ==
    { ExistingStore(TRUE, main, tag) : main \in Mains, tag \in ClientNames }

GuardInit ==
    /\ db \in ExistingStores
    /\ ctx = make_index_ctx
    /\ trapped = FALSE
    /\ tu = ""
    /\ todo = << >>
    /\ units = << >>
    /\ ncalls = 0
    /\ ret = NoCall
    /\ handles = {}
    /\ iter = NoIter
    /\ env = DefaultEnv
    /\ freed = {}

\* a client calls cf_db_member_insert() with a member of the latest type
MemberInsert ==
    /\ Len(db.members) < MaxRows
    /\ \E name \in ClientNames :
         \E r \in {cf_db_member_insert(db, [file |-> 1, scope |-> scope_global, line |-> 0],
                       [parent |-> LastTypeRef, base_type |-> NoRef,
                        name |-> name])} :
             /\ db' = r.db
             /\ ret' = [NoCall EXCEPT !.op = "member_insert", !.file = 1,
                                      !.name = name, !.err = r.err]
    /\ UNCHANGED <<ctx, trapped, tu, todo, units, ncalls, handles, iter, env, freed>>

\* a client calls cf_db_type_use_insert() with a use of the latest type
TypeUseInsert ==
    /\ Len(db.type_uses) < MaxRows
    /\ \E r \in {cf_db_type_use_insert(db,
                     [file |-> 1, scope |-> scope_global, line |-> 0],
                     [base_type |-> LastTypeRef, kind |-> type_use_decl])} :
         /\ db' = r.db
         /\ ret' = [NoCall EXCEPT !.op = "type_use_insert", !.file = 1,
                                  !.kind = type_use_decl, !.err = r.err]
    /\ UNCHANGED <<ctx, trapped, tu, todo, units, ncalls, handles, iter, env, freed>>

GuardNext ==
    AddFile \/ TypeInsert \/ TypenameInsert \/ MemberInsert \/ TypeUseInsert

GuardSpec == GuardInit /\ [][GuardNext]_vars

-----------------------------------------------------------------------------
(* A client of the typename-find cursor, over a store that other runs have
   filled.  The on-disk table is a file: its rows may hold anything. *)

\* number of rows of the typename table
MaxFindRows == 3
\* number of db_typename_iter_next() calls on one cursor
MaxNext == 4

FindNames == {"foo", "bar"}
FindKeys == {"foo", "FOO", "bar"}

\* rows an indexer run leaves
ValidRows ==
    { typename_row([file |-> 1, scope |-> scope_global, line |-> 0],
                   [kind |-> name_kind_direct, base_type |-> b, name |-> n]) :
        n \in FindNames, b \in {1, 2} }

\* rows that fail sanitize_typename(), and a row with a NULL kind column
CorruptRows ==
    { typename_row([file |-> 1, scope |-> scope_global, line |-> 0],
                   [kind |-> k, base_type |-> 1, name |-> "foo"]) :
        k \in {0, NullColumn} }
    \cup
    { typename_row([file |-> 1, scope |-> scope_global, line |-> 0],
                   [kind |-> name_kind_direct, base_type |-> 0,
                    name |-> "foo"]) }

\* sequences over S of length up to n
RECURSIVE SeqsUpTo(_, _)
SeqsUpTo(S, n) ==
    IF n = 0 THEN { << >> }
    ELSE SeqsUpTo(S, n - 1)
         \cup { Append(q, x) : q \in { t \in SeqsUpTo(S, n - 1) :
                                         Len(t) = n - 1 }, x \in S }

FindStores ==
    { new_db(db_kind_nop, FALSE) }
    \cup { [new_db(db_kind_mem, FALSE) EXCEPT
                !.typenames = rows,
                !.locs.typename_idx =
                    [i \in 1..Len(rows) |->
                        [file |-> rows[i].file, scope |-> rows[i].scope,
                         line |-> rows[i].line]]] :
             rows \in SeqsUpTo(ValidRows, MaxFindRows) }
    \cup { [new_db(db_kind_sql, FALSE) EXCEPT !.typenames = rows] :
             rows \in SeqsUpTo(ValidRows \cup CorruptRows, MaxFindRows) }

FindInit ==
    /\ db \in FindStores
    /\ env \in {[autoreset |-> b] : b \in BOOLEAN}
    /\ ctx = make_index_ctx
    /\ trapped = FALSE
    /\ tu = ""
    /\ todo = << >>
    /\ units = << >>
    /\ ncalls = 0
    /\ ret = NoCall
    /\ handles = {}
    /\ iter = NoIter
    /\ freed = {}

\* a client calls cf_db_typename_find(db, key)
TypenameFind ==
    /\ ~iter.open
    /\ \E key \in FindKeys :
         \E r \in {cf_db_typename_find(db, key)} :
             /\ iter' = r.it
             /\ ret' = [NoCall EXCEPT !.op = "typename_find", !.name = key,
                                      !.err = r.err]
    /\ ncalls' = 0
    /\ handles' = {}
    /\ UNCHANGED <<db, ctx, trapped, tu, todo, units, env, freed>>

\* a client calls db_typename_iter_next(); the names it has peeked are
\* given up
IterNext ==
    /\ iter.open
    /\ ncalls < MaxNext
    /\ \E r \in {db_typename_iter_next(db, iter, env)} :
         /\ iter' = [r.it EXCEPT !.last = IF r.ret THEN "true" ELSE "false"]
         /\ ret' = [NoCall EXCEPT !.op = "iter_next", !.name = ret.name,
                                  !.out = IF r.ret THEN 1 ELSE 0]
    /\ ncalls' = ncalls + 1
    /\ handles' = {}
    /\ UNCHANGED <<db, ctx, trapped, tu, todo, units, env, freed>>

\* a client calls db_typename_iter_peek(), which requires the previous next
\* to have returned true, and keeps the name string
IterPeek ==
    /\ iter.open
    /\ iter.last = "true"
    /\ \E r \in {db_typename_iter_peek(db, iter)} :
         /\ ret' = [NoCall EXCEPT !.op = "iter_peek", !.name = r.entry.name.str,
                                  !.kind = r.entry.kind, !.file = r.loc.file,
                                  !.out = r.entry.base_type]
         /\ handles' = handles \cup {r.entry.name}
    /\ UNCHANGED <<db, ctx, trapped, tu, todo, units, ncalls, iter, env, freed>>

\* a client calls db_typename_iter_free()
IterFree ==
    /\ iter.open
    /\ iter' = [db_typename_iter_free(db, iter) EXCEPT !.last = "none"]
    /\ ret' = [NoCall EXCEPT !.op = "iter_free"]
    /\ handles' = {}
    /\ UNCHANGED <<db, ctx, trapped, tu, todo, units, ncalls, env, freed>>

\* search_type_core() resolves a plain name with find_one_type(), which
\* makes, drains and frees a cursor of its own
FindOneType ==
    /\ ~iter.open
    /\ \E key \in FindKeys :
         \E r \in {find_one_type(db, key, env)} :
             ret' = [NoCall EXCEPT !.op = "find_one_type", !.name = key,
                                   !.err = r.err, !.out = r.out]
    /\ UNCHANGED <<db, ctx, trapped, tu, todo, units, ncalls, handles, iter,
                   env, freed>>

FindNext ==
    TypenameFind \/ IterNext \/ IterPeek \/ IterFree \/ FindOneType

FindSpec == FindInit /\ [][FindNext]_vars

-----------------------------------------------------------------------------
(* The same client over an on-disk table in which integer columns hold
   negative values: sqlite keeps signed integers, and the file can be
   written by anything *)

\* number of rows of the typename table
MaxReadRows == 2

\* rows whose file or base_type column holds a negative integer
NegativeRows ==
    { typename_row([file |-> f, scope |-> scope_global, line |-> 0],
                   [kind |-> name_kind_direct, base_type |-> b,
                    name |-> "foo"]) :
        f \in {-5, 1}, b \in {-5, 1} } \ ValidRows

ReadStores ==
    { [new_db(db_kind_sql, FALSE) EXCEPT !.typenames = rows] :
        rows \in SeqsUpTo(ValidRows \cup NegativeRows, MaxReadRows) }

ReadInit ==
    /\ db \in ReadStores
    /\ env \in {[autoreset |-> b] : b \in BOOLEAN}
    /\ ctx = make_index_ctx
    /\ trapped = FALSE
    /\ tu = ""
    /\ todo = << >>
    /\ units = << >>
    /\ ncalls = 0
    /\ ret = NoCall
    /\ handles = {}
    /\ iter = NoIter
    /\ freed = {}

ReadSpec == ReadInit /\ [][FindNext]_vars

-----------------------------------------------------------------------------
(* A client of member-lookup, over a store that other runs have filled *)

\* number of rows of the member table
MaxMembers == 2

MemberNames == {"foo", "FOO", "bar", "b_r"}
MemberParents == {1, 2}

MemberRows ==
    { member_row([file |-> 1, scope |-> scope_global, line |-> 0],
                 [parent |-> p, base_type |-> NoRef, name |-> n]) :
        p \in MemberParents, n \in MemberNames }

MemberStores ==
    { [new_db(db_kind_sql, FALSE) EXCEPT !.members = rows] :
        rows \in SeqsUpTo(MemberRows, MaxMembers) }
    \cup { [new_db(db_kind_mem, FALSE) EXCEPT
                !.members = rows,
                !.locs.member_idx =
                    [i \in 1..Len(rows) |->
                        [file |-> 1, scope |-> scope_global, line |-> 0]]] :
             rows \in SeqsUpTo(MemberRows, MaxMembers) }
    \cup { new_db(db_kind_nop, FALSE) }

MemberInit ==
    /\ db \in MemberStores
    /\ ctx = make_index_ctx
    /\ trapped = FALSE
    /\ tu = ""
    /\ todo = << >>
    /\ units = << >>
    /\ ncalls = 0
    /\ ret = NoCall
    /\ handles = {}
    /\ iter = NoIter
    /\ env = DefaultEnv
    /\ freed = {}

\* a client calls cf_db_member_lookup(db, parent, name)
MemberLookup ==
    /\ \E parent \in MemberParents, name \in MemberNames :
         \E r \in {cf_db_member_lookup(db, parent, name)} :
             ret' = [op |-> "member_lookup", parent |-> parent,
                     name |-> name, err |-> r.err, out |-> r.out]
    /\ UNCHANGED <<db, ctx, trapped, tu, todo, units, ncalls, handles, iter,
                   env, freed>>

MemberNext == MemberLookup

MemberSpec == MemberInit /\ [][MemberNext]_vars


\* a file row matches path p when it holds p as given or as realpath(3)
\* resolves it
FileMatches(row, p) == row = p \/ (realpath(p) # << >> /\ row = realpath(p))

HandlesOf(p) == {x[2] : x \in {y \in handles : y[1] = p}}

\* C1: for any store and any path P, after any number of successful add-file
\* calls with P, all handles returned for P are equal and, in a store that
\* keeps a file table, exactly one file row matches P.
C1_AddFileIdempotent ==
    \A p \in PathSpellings :
        HandlesOf(p) # {} =>
            /\ Cardinality(HandlesOf(p)) = 1
            /\ db.db_kind # db_kind_nop =>
                 Len(Matching(db.files, LAMBDA f : FileMatches(f, p))) = 1

-----------------------------------------------------------------------------
(* The query tool, run over database files that indexer runs have left *)

\* the command lines: option, whether a database file is named, and the
\* tokens of the command
Commands ==
    { << >>, <<"xx", "foo">>, <<"td">>, <<"td", "foo">>, <<"td", "bar">>,
      <<"td", "zed">>, <<"td", "struct">>, <<"td", "struct", "foo">>,
      <<"td", "1">>, <<"td", "17">>, <<"td", "1x">>,
      <<"tn">>, <<"tn", "foo">>, <<"tn", "zed">>,
      <<"md", "foo">>, <<"md", "foo", "bar">>, <<"md", "foo", "zed">>,
      <<"md", "zed", "bar">> }

Args ==
    { [opt |-> o, db_path |-> TRUE, cmd |-> << >>] : o \in {"?", "h", "V", "i"} }
    \cup { [opt |-> "c", db_path |-> FALSE, cmd |-> <<"td", "foo">>] }
    \cup { [opt |-> "c", db_path |-> TRUE, cmd |-> c] : c \in Commands }

\* number of typename rows of a database file
MaxSearchRows == 3

\* typename rows of a database file: tags of the struct and of the union,
\* and rows the cursor rejects
SearchRows ==
    { typename_row([file |-> 1, scope |-> scope_global, line |-> 0],
                   [kind |-> name_kind_direct, base_type |-> x[1],
                    name |-> x[2]]) :
        x \in {<<1, "foo">>, <<2, "foo">>, <<1, "bar">>} }
    \cup
    { typename_row([file |-> 1, scope |-> scope_global, line |-> 0],
                   [kind |-> k, base_type |-> 2, name |-> "foo"]) :
        k \in {0, NullColumn} }

\* a database file: one file row, a struct and a union, a member of the
\* struct, and typename rows
SearchStores ==
    { [new_db(db_kind_sql, FALSE) EXCEPT
         !.files = << WorkDir \o <<"t16.h">> >>,
         !.user_types =
            << type_row([file |-> 1, scope |-> scope_global, line |-> 0],
                        [kind |-> type_kind_struct, complete |-> TRUE]),
               type_row([file |-> 1, scope |-> scope_global, line |-> 0],
                        [kind |-> type_kind_union, complete |-> TRUE]) >>,
         !.members =
            << member_row([file |-> 1, scope |-> scope_global, line |-> 0],
                          [parent |-> 1, base_type |-> NoRef,
                           name |-> "bar"]) >>,
         !.typenames = rows] :
        rows \in SeqsUpTo(SearchRows, MaxSearchRows) }

\* what the path on the command line can name as well: no file, and the
\* database file of another program
OtherFiles ==
    { [new_db(db_kind_sql, FALSE) EXCEPT !.on_disk = FALSE, !.tables = {}],
      [new_db(db_kind_sql, FALSE) EXCEPT !.tables = {"other"}] }

SearchInit ==
    /\ db \in SearchStores \cup OtherFiles
    /\ ctx = make_index_ctx
    /\ trapped = FALSE
    /\ tu = ""
    /\ todo = << >>
    /\ units = << >>
    /\ ncalls = 0
    /\ ret = NoCall
    /\ handles = {}
    /\ iter = NoIter
    /\ env = DefaultEnv
    /\ freed = {}

\* the user runs cfind; ret is the command line, the exit status and the
\* lines printed
Main ==
    \E args \in Args :
        \E r \in {cfind_main(db, args, env)} :
            /\ ret' = [op |-> "main", args |-> args, err |-> r.err,
                       out |-> r.out]
            /\ freed' = r.freed
            /\ db' = r.db
            /\ UNCHANGED <<ctx, trapped, tu, todo, units, ncalls, handles,
                           iter, env>>

SearchNext == Main

SearchSpec == SearchInit /\ [][SearchNext]_vars

-----------------------------------------------------------------------------
(* A client closing a store *)

\* number of cf_db_close() calls
MaxClose == 3

CloseInit ==
    /\ db \in FindStores \cup MemberStores
    /\ ctx = make_index_ctx
    /\ trapped = FALSE
    /\ tu = ""
    /\ todo = << >>
    /\ units = << >>
    /\ ncalls = 0
    /\ ret = NoCall
    /\ handles = {}
    /\ iter = NoIter
    /\ env = DefaultEnv
    /\ freed = {}

\* a client calls cf_db_close(db).  Freeing an allocation again is undefined:
\* the allocator aborts the process, or the call goes on and returns 0.
Close ==
    /\ ~trapped
    /\ ncalls < MaxClose
    /\ \E r \in {cf_db_close(db, freed)} :
         \E abort \in (IF r.twice = {} THEN {FALSE} ELSE BOOLEAN) :
             /\ freed' = r.freed
             /\ trapped' = abort
             /\ ret' = [NoCall EXCEPT !.op = "close",
                                      !.err = IF abort THEN "SIGABRT" ELSE OK,
                                      !.out = Cardinality(r.twice)]
    /\ ncalls' = ncalls + 1
    /\ UNCHANGED <<db, ctx, tu, todo, units, handles, iter, env>>

CloseNext == Close

CloseSpec == CloseInit /\ [][CloseNext]_vars

-----------------------------------------------------------------------------
(* Claims about typename-lookup *)

\* the typename rows that equal the key of the last call on file, name and
\* kind
KeyRows ==
    {i \in 1..Len(db.typenames) :
        /\ db.typenames[i].file = ret.file
        /\ db.typenames[i].name = ret.name
        /\ db.typenames[i].kind = ret.kind}

LookedUp == ret.op = "typename_lookup"

\* C4: on every back-end, a typename-lookup that no engine failure disturbs
\* succeeds exactly when some stored typename row equals the key on file,
\* name and kind together, and it then returns the type reference of such a
\* row.
C4_LookupMatchesKey ==
    (LookedUp /\ ret.eng = "run") =>
        /\ ret.err = OK <=> KeyRows # {}
        /\ ret.err = OK => \E i \in KeyRows : db.typenames[i].base_type = ret.out

\* the engine failed the statement of the last call
EngineFailed ==
    /\ db.db_kind = db_kind_sql
    /\ \/ ret.eng \in {"bind", "step"}
       \/ /\ ret.eng = "column"
          /\ typename_lookup_query(db, ret.file, ret.name) # << >>

\* C5: typename-lookup answers not-found only when no row matches the key;
\* a bind, engine or conversion failure is answered with a code other than
\* not-found (and other than success), and commit_one_struct() inserts
\* nothing after such a failure.
C5_NotFoundOnlyWhenAbsent ==
    /\ LookedUp =>
         /\ ret.err = ENOENT => KeyRows = {}
         /\ EngineFailed => ret.err \notin {OK, ENOENT}
    /\ (ret.op = "commit_one_struct" /\ db.db_kind = db_kind_sql
          /\ ret.eng \in {"bind", "step"}) => ret.out = 0

-----------------------------------------------------------------------------
(* Claims about ingestion *)

\* index_project() is between units and no cf_assert() has failed
Ingested == tu = "" /\ ~trapped /\ units # << >>

\* the record types a header defines, anonymous members aside
Composites(h) ==
    LET es == Preorder(HeaderDecls(h), 0, 0, <<h>>)
    IN  {es[i].type : i \in {j \in 1..Len(es) : is_tag(es[j]) /\ ~es[j].anon}}

\* the file rows that hold header h under one of its spellings
FileRowsOf(h) ==
    Matching(db.files,
             LAMBDA f : \E main \in Mains : FileMatches(f, IncludeSpelling(main, h)))

\* two units included the same header under two spellings
TwoSpellings ==
    /\ Ingested
    /\ Len(units) = 2
    /\ units[1].header = units[2].header
    /\ units[1].main # units[2].main
    /\ db.db_kind # db_kind_nop

\* C2: after indexing two translation units that include the same header H
\* under two spellings of one canonical path, the store holds exactly one
\* file row for H and exactly one type row per composite defined in H.
C2_CrossTUDedup ==
    TwoSpellings =>
        /\ Len(FileRowsOf(units[1].header)) = 1
        /\ Len(db.user_types) = Cardinality(Composites(units[1].header))

\* the key of a typename row
TypenameKey(row) == <<row.file, row.name, row.kind, row.scope>>

\* C3: after ingestion of any sequence of translation units, for every
\* tuple (file, name, kind, scope) there is at most one typename row.
C3_TypenameUnique ==
    Ingested =>
        \A i, j \in 1..Len(db.typenames) :
            TypenameKey(db.typenames[i]) = TypenameKey(db.typenames[j]) => i = j

\* the references of the type rows the store holds
TypeRefs == 1..Len(db.user_types)

\* C6: at every point after a commit, the base_type of every persisted
\* typename row references a type row that exists in the same store.
C6_TypenameBaseExists ==
    \A i \in 1..Len(db.typenames) : db.typenames[i].base_type \in TypeRefs

\* C7: the parent of every persisted member row references an existing
\* type row.
C7_MemberParentExists ==
    \A i \in 1..Len(db.members) : db.members[i].parent \in TypeRefs

\* C7 is reached with the members of a record and of a record nested in it
C7_MembersOfTwoRecords ==
    /\ Ingested
    /\ \E i, j \in 1..Len(db.members) :
         /\ db.members[i].parent # db.members[j].parent
         /\ db.members[i].base_type = db.members[j].parent

-----------------------------------------------------------------------------
(* Claims about the shapes of records *)

\* the cursors of header h, in visiting order
Entries(h) == Preorder(HeaderDecls(h), 0, 0, <<h>>)

\* the tag declaration with identity cid, at its first (lexical) position
TagEntry(es, cid) ==
    es[CHOOSE i \in 1..Len(es) :
          /\ is_tag(es[i]) /\ es[i].cid = cid
          /\ \A j \in 1..(i - 1) : ~(is_tag(es[j]) /\ es[j].cid = cid)]

\* the name of the nearest enclosing record that is not anonymous
RECURSIVE Owner(_, _)
Owner(es, cid) ==
    IF TagEntry(es, cid).anon THEN Owner(es, TagEntry(es, cid).parent)
    ELSE TagEntry(es, cid).name

\* <<field, record>>: the field is declared directly in an anonymous
\* record, and record is the nearest enclosing one that is not anonymous
AnonFields(h) ==
    LET es == Entries(h)
    IN  { <<es[i].name, Owner(es, es[i].parent)>> :
            i \in {j \in 1..Len(es) :
                     /\ es[j].kind = "FieldDecl"
                     /\ \E k \in 1..Len(es) :
                          is_tag(es[k]) /\ es[k].cid = es[j].parent /\ es[k].anon} }

\* the tags of the records of h that are not anonymous
TagNames(h) ==
    LET es == Entries(h)
    IN  {es[i].name : i \in {j \in 1..Len(es) : is_tag(es[j]) /\ ~es[j].anon}}

\* every unit so far included header h, and the store keeps tables
OnlyHeader(h) ==
    /\ Ingested
    /\ db.db_kind # db_kind_nop
    /\ \A u \in 1..Len(units) : units[u].header = h

\* C8: when a record R contains an anonymous record A, A gets no typename
\* row (the names in the store are the tags of the other records), and
\* each field declared directly in A gets a member row whose parent is the
\* type row of R.
C8_AnonymousPromotion ==
    \A h \in Headers :
        (AnonFields(h) # {} /\ OnlyHeader(h)) =>
            /\ \A i \in 1..Len(db.typenames) : db.typenames[i].name \in TagNames(h)
            /\ \A fr \in AnonFields(h) :
                 /\ \E i \in 1..Len(db.members) : db.members[i].name = fr[1]
                 /\ \A i \in 1..Len(db.members) :
                      db.members[i].name = fr[1] =>
                          \E j \in 1..Len(db.typenames) :
                              /\ db.typenames[j].name = fr[2]
                              /\ db.typenames[j].base_type = db.members[i].parent

\* after one unit with header h on a fresh store that keeps tables
FirstUnit(h) == OnlyHeader(h) /\ Len(units) = 1

\* the typename rows with a name and a kind
NameRows(name, kind) ==
    {i \in 1..Len(db.typenames) :
        db.typenames[i].name = name /\ db.typenames[i].kind = kind}

\* <<name, kind>> of the declarators of h that name a file-scope unnamed
\* record: the typedef or variable that follows the record's definition
NamingDeclarators(h) ==
    LET es == Entries(h)
    IN  { << es[j].name,
             IF es[j].kind = "VarDecl" THEN name_kind_var ELSE name_kind_typedef >> :
            j \in {d \in 1..Len(es) :
                     /\ es[d].depth = 0
                     /\ es[d].kind \in {"TypedefDecl", "VarDecl"}
                     /\ \E k \in 1..(d - 1) :
                          /\ is_tag(es[k]) /\ es[k].depth = 0 /\ es[k].name = ""
                          /\ es[k].cid = es[d].type
                          /\ \A l \in (k + 1)..(d - 1) : es[l].depth > 0} }

\* C9: a file-scope unnamed record followed by its naming declarator
\* yields exactly one type row and exactly one typename row for it, of
\* kind typedef with the alias name after a typedef and of kind var with
\* the variable's name after a variable declaration (any other typename
\* row of that type row is a later typedef alias).
C9_DeclaratorNamesRecord ==
    \A h \in Headers :
        FirstUnit(h) =>
            \A nd \in NamingDeclarators(h) :
                /\ Cardinality(NameRows(nd[1], nd[2])) = 1
                /\ \A i \in NameRows(nd[1], nd[2]) :
                     /\ db.typenames[i].base_type \in TypeRefs
                     /\ \A j \in 1..Len(db.typenames) :
                          (j # i /\ db.typenames[j].base_type
                                      = db.typenames[i].base_type)
                              => db.typenames[j].kind = name_kind_typedef

\* the names of the fields of h whose type is an unnamed record defined
\* inside the enclosing record
NamingFields(h) ==
    LET es == Entries(h)
    IN  { es[j].name :
            j \in {d \in 1..Len(es) :
                     /\ es[d].kind = "FieldDecl"
                     /\ \E k \in 1..(d - 1) :
                          /\ is_tag(es[k]) /\ ~es[k].anon /\ es[k].name = ""
                          /\ es[k].depth = es[d].depth
                          /\ es[k].cid = es[d].type} }

\* C10: when a field of a record has as its type an unnamed nested record,
\* the field's identifier becomes the single var-kind typename of the
\* nested record, and the nested record is persisted as a type row of its
\* own: the field's member row has that row as base_type and another row
\* as parent.
C10_FieldNamesNestedRecord ==
    \A h \in Headers :
        FirstUnit(h) =>
            \A f \in NamingFields(h) :
                /\ Cardinality(NameRows(f, name_kind_var)) = 1
                /\ \A i \in NameRows(f, name_kind_var) :
                     /\ db.typenames[i].base_type \in TypeRefs
                     /\ \E m \in 1..Len(db.members) :
                          /\ db.members[m].name = f
                          /\ db.members[m].base_type = db.typenames[i].base_type
                          /\ db.members[m].parent \in
                                 TypeRefs \ {db.typenames[i].base_type}

\* <<field, name, kind>>: the field is declared directly in a nested
\* record that is not anonymous; name and kind are those of the nested
\* record's typename, its tag or else the field that declares it
NestedFields(h) ==
    LET es == Entries(h)
        rec(j) == TagEntry(es, es[j].parent)
        declarator(r) ==
            es[CHOOSE d \in 1..Len(es) :
                  es[d].kind = "FieldDecl" /\ es[d].type = r.cid]
    IN  { IF rec(j).name # ""
          THEN <<es[j].name, rec(j).name, name_kind_direct>>
          ELSE <<es[j].name, declarator(rec(j)).name, name_kind_var>> :
            j \in {f \in 1..Len(es) :
                     /\ es[f].kind = "FieldDecl"
                     /\ \E k \in 1..Len(es) :
                          is_tag(es[k]) /\ es[k].cid = es[f].parent
                     /\ ~rec(f).anon
                     /\ rec(f).depth > 0} }

\* C11: a field declared in a nested record that has a tag or a member
\* declarator gets a member row whose parent is the type row of the nested
\* record (the row its typename references), not that of the enclosing
\* record.
C11_NestedFieldParent ==
    \A h \in Headers :
        FirstUnit(h) =>
            \A nf \in NestedFields(h) :
                /\ \E m \in 1..Len(db.members) : db.members[m].name = nf[1]
                /\ \A m \in 1..Len(db.members) :
                     db.members[m].name = nf[1] =>
                         \E i \in NameRows(nf[2], nf[3]) :
                             db.typenames[i].base_type = db.members[m].parent

-----------------------------------------------------------------------------
(* Claims about the type map *)

\* C12: within a translation unit, after any sequence of scoreboard commits
\* and typedef insertions, each canonical type identifier in ctx->type_map
\* maps to at most one persistent type handle.
C12_TypeMapFunctional ==
    \A i, j \in 1..Len(ctx.type_map) :
        ctx.type_map[i].key = ctx.type_map[j].key
            => ctx.type_map[i].value = ctx.type_map[j].value

-----------------------------------------------------------------------------
(* Claims about the typename-find cursor *)

\* C13: once db_typename_iter_next() has returned false on a cursor, every
\* further db_typename_iter_next() on that cursor returns false.
C13_ExhaustedStaysExhausted ==
    [][(/\ iter.open /\ iter.last = "false"
        /\ iter'.open /\ ncalls' = ncalls + 1) => iter'.last = "false"]_vars

\* what reading a borrowed name string yields: its bytes while the buffer it
\* points into is live, anything once the statement has stepped or is
\* finalized
Readable(s) ==
    \/ s.buf = StoreBuf
    \/ /\ iter.open
       /\ iter.stmt.state = "row"
       /\ iter.stmt.steps = s.buf

\* the name of the entry the cursor is on
CurrentName ==
    IF db.db_kind = db_kind_mem THEN db.typenames[iter.i + 1].name
    ELSE db.typenames[iter.stmt.row].name

\* C14: a name string obtained by db_typename_iter_peek() stays valid and
\* unchanged until the next db_typename_iter_next() on the same cursor.
C14_PeekedNameValid ==
    \A s \in handles : Readable(s) /\ s.str = CurrentName

\* C14 witness: the on-disk cursor has moved more than once and the name
\* peeked at its entry, borrowed from the statement, is held
C14_NameHeldAcrossPeeks ==
    /\ db.db_kind = db_kind_sql
    /\ ret.op = "iter_peek"
    /\ \E s \in handles : s.buf # StoreBuf /\ s.str = "foo"
    /\ ncalls > 1

\* a row of the on-disk typename table the cursor can read and accepts
ReadableRow(row) ==
    /\ \A v \in {row.kind, row.base_type, row.file, row.scope} :
         sqlite3_column_type(v) = "SQLITE_INTEGER"
    /\ sanitize_typename([kind |-> row.kind, base_type |-> row.base_type,
                          name |-> [str |-> row.name, buf |-> StoreBuf]])

\* the store without the rows the cursor cannot read or rejects
SkipCorrupt(d) ==
    [d EXCEPT !.typenames = SelectSeq(@, ReadableRow)]

\* C15: a row the on-disk cursor cannot convert or that fails sanitization
\* is skipped: the search of find_one_type() goes on to every later valid
\* matching row, so its result is that of the store without the corrupt rows.
C15_CorruptRowSkipped ==
    (ret.op = "find_one_type" /\ db.db_kind = db_kind_sql) =>
        \E r \in {find_one_type(SkipCorrupt(db), ret.name, env)} :
            ret.err = r.err /\ ret.out = r.out

-----------------------------------------------------------------------------
(* Claims about the on-disk store *)

InsertOps ==
    {"add_file", "type_insert", "typename_insert", "member_insert",
     "type_use_insert"}

\* C16: on a store opened read-only every insertion (add-file, type-insert,
\* typename-insert, member-insert, type-use-insert) fails with EACCES, no
\* statement reaches the engine (which would answer SQLITE_READONLY), and
\* the store still holds the rows it was opened with and no other.
C16_ReadonlyGuard ==
    db.readonly =>
        /\ ret.op \in InsertOps => ret.err = EACCES
        /\ db \in ExistingStores

\* C16 witness: add-file of a path the read-only store already holds has
\* been refused
C16_AddFileRefused ==
    /\ db.readonly
    /\ ret.op = "add_file"
    /\ realpath(ret.path) = db.files[1]
    /\ ret.err = EACCES

-----------------------------------------------------------------------------
(* Claims about member-lookup *)

\* C17: member-lookup(parent, name) returns a member row only if the row's
\* parent is the given type reference and its name equals the given name
\* byte for byte; otherwise it returns ENOENT.
C17_MemberLookupExact ==
    ret.op = "member_lookup" =>
        /\ ret.err \in {OK, ENOENT}
        /\ ret.err = OK =>
             ret.out.parent = ret.parent /\ ret.out.name = ret.name
        /\ ret.err = ENOENT =>
             ~\E i \in 1..Len(db.members) :
                 /\ db.members[i].parent = ret.parent
                 /\ db.members[i].name = ret.name

-----------------------------------------------------------------------------
(* Claims about close *)

\* C18: closing a store that is already closed returns success and releases
\* no resource a second time, on every back-end.
C18_CloseIdempotent ==
    (ret.op = "close" /\ ncalls > 1) =>
        (ret.err = OK /\ ret.out = 0)

-----------------------------------------------------------------------------
(* Claims about the query tool *)

\* the typename rows of the database file that match name, in table order
MatchingRows(name) ==
    SelectSeq(db.typenames,
              LAMBDA row : ReadableRow(row) /\ like(Bytes(name), Bytes(row.name)))

TypesOf(rows) == { rows[i].base_type : i \in 1..Len(rows) }

\* the lines print_one_typename() prints for rows
Listing(rows) ==
    [i \in 1..Len(rows) |-> Line("typename", rows[i].base_type, rows[i].name)]

\* a run of "td NAME" for a plain name
PlainTypeDecl ==
    /\ ret.op = "main"
    /\ ret.args.opt = "c"
    /\ ret.args.db_path
    /\ Len(ret.args.cmd) = 2
    /\ ret.args.cmd[1] = "td"
    /\ ret.args.cmd[2] \in {"foo", "bar", "zed"}

\* C19: a type-decl search by plain name resolves only if every typename
\* row for the name refers to one type; if the rows refer to two or more
\* types the result is ambiguous and every matching row is listed; if no
\* row matches the result is not-found.
C19_PlainNameResolution ==
    PlainTypeDecl =>
        \E rows \in {MatchingRows(ret.args.cmd[2])} :
            /\ ret.err = OK => Cardinality(TypesOf(rows)) = 1
            /\ Cardinality(TypesOf(rows)) > 1 =>
                 /\ ret.err = EMLINK
                 /\ ret.out = <<Line("ambiguous typename", 0, "")>>
                               \o Listing(rows)
            /\ rows = << >> => ret.err = ENOENT

\* the runs C20 is about: a command that does not parse, or a search of
\* one of the three verbs that finds nothing
Unparseable == parse_command(ret.args.cmd).err # OK

EmptyResult ==
    /\ ~Unparseable
    /\ \A i \in 1..Len(ret.out) :
         ret.out[i].text \notin {"type", "typename", "member"}

\* C20: a command that cannot be parsed and a search without a result are
\* reported to the user and end with a non-zero exit status.
C20_FailureExitsNonZero ==
    (ret.op = "main" /\ ret.args.opt = "c" /\ ret.args.db_path
        /\ (Unparseable \/ EmptyResult)) =>
        (ret.err # OK /\ ret.out # << >>)

-----------------------------------------------------------------------------
(* Claims about what a unit leaves in the store *)

\* index_project() has indexed one unit, which includes header h, and the
\* store keeps what it is given
IndexedOnly(h) ==
    /\ Ingested
    /\ Len(units) = 1
    /\ units[1].header = h
    /\ db.db_kind # db_kind_nop

\* C21: after a unit with the single definition  struct foo { int a; };
\* typename-find for foo yields one entry, of kind direct, whose base type
\* type-lookup resolves to a complete struct; the typename and the type
\* are both located at the tag keyword.
C21_BasicStruct ==
    IndexedOnly("h13.h") =>
        \E r \in {lookup_one_type(db, "foo", env)} :
            /\ r.err = OK
            /\ r.name.kind = name_kind_direct
            /\ r.name.base_type # 0
            /\ r.name.name.str = "foo"
            /\ r.type.kind = type_kind_struct
            /\ r.type.complete
            /\ r.name_loc.line = H13[1].cid
            /\ r.type.line = H13[1].cid
            /\ r.name_loc.file = r.type.file
            /\ r.type.file \in 1..Len(db.files)

\* a unit with that definition has been indexed into a store that keeps it
C21_BasicStructIndexed ==
    /\ IndexedOnly("h13.h")
    /\ Len(db.user_types) = 1
    /\ Len(db.typenames) = 1

\* C22: after a unit with  struct foo; struct foo { int a; int b; };  the
\* store holds exactly one type row, and it is the row of the complete
\* definition: the forward declaration created no row of its own, so the
\* row is located at the definition.
C22_ForwardDeclaredOnce ==
    IndexedOnly("h14.h") =>
        /\ Len(db.user_types) = 1
        /\ db.user_types[1].complete
        /\ db.user_types[1].line = H14[2].cid

-----------------------------------------------------------------------------
(* Claims about the record that waits for its name *)

\* the scoreboard holds nothing staged
ScoreboardEmpty(sb) ==
    /\ sb.new_types = << >>
    /\ sb.unnamed_types = << >>
    /\ sb.members = << >>
    /\ sb.type_uses = << >>

\* index_ast_node() is entered for the next cursor while a record waits
\* for its name
EnteredAwaitingName ==
    /\ tu \in Mains
    /\ ~trapped
    /\ todo # << >>
    /\ ctx.last_struct # 0

\* C23: when index_ast_node() is entered for a cursor while a record waits
\* for its name, then on return the scoreboard has been committed and
\* reset and no record waits any more, whether or not the cursor named it.
C23_AwaitingNameSettled ==
    [][ (EnteredAwaitingName /\ todo' # todo) =>
            (ctx'.last_struct = 0 /\ ScoreboardEmpty(ctx'.struct_sb)) ]_vars

\* C24: when the traversal of a unit has ended no record waits for its name
\* and the scoreboard is empty, so nothing staged in one unit is named or
\* committed during a later one.
C24_NothingStagedAcrossUnits ==
    (tu = "" /\ units # << >> /\ ~trapped) =>
        (ctx.last_struct = 0 /\ ScoreboardEmpty(ctx.struct_sb))

-----------------------------------------------------------------------------
(* Claims about the scoreboard commit *)

\* the member rows a step adds belong to type rows the same step adds
MembersUnderNewRecords ==
    \A i \in (Len(db.members) + 1)..Len(db'.members) :
        db'.members[i].parent \in (Len(db.user_types) + 1)..Len(db'.user_types)

\* the unit being indexed includes the header the first unit included
Reindexing ==
    /\ tu \in Mains
    /\ Len(units) = 2
    /\ units[2].header = units[1].header

\* C25: a staged member or type use is inserted only when its enclosing
\* record was newly inserted by the same commit; a unit that re-indexes a
\* header therefore adds no member rows and no type-use rows for the
\* records the store already holds.
C25_MembersOnlyOfNewRecords ==
    [][ /\ MembersUnderNewRecords
        /\ Reindexing => /\ Len(db'.members) = Len(db.members)
                         /\ Len(db'.type_uses) = Len(db.type_uses) ]_vars

\* index_ast_node() is about to stage the record of the next cursor into
\* an empty scoreboard
AboutToStageAny ==
    /\ tu \in Mains
    /\ ~trapped
    /\ todo # << >>
    /\ is_tag(Head(todo))
    /\ cursor_is_indexable(Head(todo))
    /\ ctx.last_struct = 0
    /\ ScoreboardEmpty(ctx.struct_sb)

\* the same, for a store that keeps rows
AboutToStage == AboutToStageAny /\ db.db_kind # db_kind_nop

\* the machine as index_struct() has it when it calls
\* commit_struct_scoreboard(): the record and all below it are staged
Staged ==
    Only({ Only({ index_struct_children([m0 EXCEPT !.ctx.struct_sb = rec.sb],
                      Head(todo), Descendants(Tail(todo), Head(todo).depth)) :
                  rec \in {index_struct_record(
                              [m0.ctx.struct_sb EXCEPT !.loc = m0.ctx.loc],
                              Head(todo))} }) :
           m0 \in {[Machine EXCEPT !.ctx = update_location(@, Head(todo))]} })

\* the staged members whose enclosing record is in new_type_map
MembersOfNew(st, new_type_map) ==
    {i \in 1..Len(st.ctx.struct_sb.members) :
        cf_map8_has(new_type_map, st.ctx.struct_sb.members[i].parent)}

\* C26: in a scoreboard commit every staged member whose enclosing record
\* is newly inserted by that commit produces exactly one member row.
C26_OneRowPerMemberOfNew ==
    AboutToStage =>
        \E st \in {Staged} :
            \/ st.trapped
            \/ cf_map8_has(st.ctx.struct_sb.unnamed_types, Head(todo).type)
            \/ \E s \in {commit_new_types([m |-> st, new_type_map |-> << >>],
                                          st.ctx.struct_sb.new_types)},
                  cm \in {commit_struct_scoreboard(st)} :
                   \/ cm.trapped
                   \/ Len(cm.db.members) - Len(st.db.members)
                        = Cardinality(MembersOfNew(st, s.new_type_map))

\* the machines on which the next index_ast_node() calls
\* commit_struct_scoreboard(): a record staged and named at once, or the
\* record that waited for its name
PreCommits ==
    (IF AboutToStageAny
     THEN {st \in {Staged} :
             /\ ~st.trapped
             /\ ~cf_map8_has(st.ctx.struct_sb.unnamed_types, Head(todo).type)}
     ELSE {})
    \cup
    (IF EnteredAwaitingName /\ cursor_is_indexable(Head(todo))
     THEN {sp.m : sp \in {r \in {special_index_struct_name(
                                    [Machine EXCEPT !.ctx =
                                        update_location(@, Head(todo))],
                                    Head(todo))} : ~r.m.trapped}}
     ELSE {})

\* every entry of added resolves through map to its own value
ResolvesTo(map, added) ==
    \A i \in 1..Len(added) : cf_map8_lookup(map, added[i].key) = added[i].value

\* C27: after commit_struct_scoreboard() returns, every staged record the
\* pre-lookup found or the commit newly inserted resolves, in ctx->type_map,
\* from its canonical id to that type reference.
C27_TypeMapResolvesCommitted ==
    \A st \in PreCommits :
        \E s \in {commit_new_types([m |-> st, new_type_map |-> << >>],
                                   st.ctx.struct_sb.new_types)},
           cm \in {commit_struct_scoreboard(st)} :
            \/ cm.trapped
            \/ /\ ResolvesTo(cm.ctx.type_map, s.new_type_map)
               /\ ResolvesTo(cm.ctx.type_map,
                             SubSeq(s.m.ctx.type_map, Len(st.ctx.type_map) + 1,
                                    Len(s.m.ctx.type_map)))

-----------------------------------------------------------------------------
(* Claims about failing inserts *)

\* index_ast_node() is about to index a tagged record that the store
\* (one whose inserts can fail) does not hold yet: the pre-lookup of
\* commit_one_struct() will answer ENOENT
NewTaggedRecordNext ==
    /\ tu \in Mains
    /\ ~trapped
    /\ todo # << >>
    /\ is_tag(Head(todo))
    /\ cursor_is_indexable(Head(todo))
    /\ get_struct_name_kind(Head(todo)) = struct_name_direct
    /\ ctx.last_struct = 0
    /\ db.db_kind # db_kind_nop
    /\ cf_db_typename_lookup(db, update_location(ctx, Head(todo)).loc,
           [kind |-> name_kind_direct, base_type |-> NoRef,
            name |-> Head(todo).name]).err = ENOENT

\* index_ast_node() has returned from indexing such a record while every
\* typename insert failed
TypenameInsertFailed ==
    /\ NewTaggedRecordNext
    /\ todo' # todo
    /\ ret'.eng = "typename_insert"

\* C28: when the typename insert fails after the type insert of the same
\* staged record succeeded, the type row stays in the store, the record's
\* canonical id is added to neither type map (so ctx->type_map gets no entry
\* for it), and none of its staged members and type uses are inserted.
C28_FailedNameLeavesTypeOnly ==
    [][ TypenameInsertFailed =>
          /\ Len(db'.user_types) > Len(db.user_types)
          /\ SubSeq(db'.user_types, 1, Len(db.user_types)) = db.user_types
          /\ db'.user_types[Len(db.user_types) + 1].line = Head(todo).pos
          /\ db'.typenames = db.typenames
          /\ \A i \in (Len(ctx.type_map) + 1)..Len(ctx'.type_map) :
                 ctx'.type_map[i].key # Head(todo).type
          /\ db'.members = db.members
          /\ db'.type_uses = db.type_uses ]_vars

\* a record with a member was committed while the typename insert failed:
\* its type row is in the store without a name
C28_TypeRowWithoutName ==
    /\ ret.op = "index_ast_node"
    /\ ret.eng = "typename_insert"
    /\ units # << >>
    /\ units[1].header = "h13.h"
    /\ Len(db.user_types) = 1
    /\ db.typenames = << >>
    /\ todo = << >>

-----------------------------------------------------------------------------
(* Claims about staging *)

\* unnamed_types holds exactly the staged types without a name, each under
\* its index in new_types
UnnamedConsistent(sb) ==
    /\ \A i \in 1..Len(sb.unnamed_types) :
          /\ sb.unnamed_types[i].value + 1 \in 1..Len(sb.new_types)
          /\ sb.new_types[sb.unnamed_types[i].value + 1].type_id
                = sb.unnamed_types[i].key
          /\ sb.new_types[sb.unnamed_types[i].value + 1].name = NoName
          /\ \A j \in 1..Len(sb.unnamed_types) :
                sb.unnamed_types[j].key = sb.unnamed_types[i].key => j = i
    /\ \A i \in 1..Len(sb.new_types) :
          sb.new_types[i].name = NoName =>
              /\ cf_map8_has(sb.unnamed_types, sb.new_types[i].type_id)
              /\ cf_map8_lookup(sb.unnamed_types, sb.new_types[i].type_id) = i - 1

\* the scoreboard after index_struct() has staged the record of the next
\* cursor and the first k cursors below it
StagedUpTo(k) ==
    Only({ Only({ index_struct_children([m0 EXCEPT !.ctx.struct_sb = rec.sb],
                      Head(todo),
                      SubSeq(Descendants(Tail(todo), Head(todo).depth), 1, k)) :
                  rec \in {index_struct_record(
                              [m0.ctx.struct_sb EXCEPT !.loc = m0.ctx.loc],
                              Head(todo))} }) :
           m0 \in {[Machine EXCEPT !.ctx = update_location(@, Head(todo))]} })

\* the scoreboards of the next call of index_ast_node(): as the call finds
\* it, after each staged cursor, and after a declarator has named the
\* record that waited
StagingPoints ==
    {ctx.struct_sb}
    \cup (IF AboutToStageAny
          THEN {StagedUpTo(k).ctx.struct_sb :
                  k \in 0..Len(Descendants(Tail(todo), Head(todo).depth))}
          ELSE {})
    \cup {st.ctx.struct_sb : st \in PreCommits}

\* C29: at every point of staging, unnamed_types holds exactly the entries
\* of new_types whose typename is not resolved yet, each mapped to its index
\* in new_types.
C29_UnnamedTypesExact ==
    \A sb \in StagingPoints : UnnamedConsistent(sb)

\* a record without a tag waits for its name while the record nested in it
\* has been named by its declarator
C29_OuterWaitsInnerNamed ==
    /\ ctx.last_struct # 0
    /\ Len(ctx.struct_sb.new_types) = 2
    /\ Len(ctx.struct_sb.unnamed_types) = 1
    /\ ctx.struct_sb.new_types[1].name = NoName
    /\ ctx.struct_sb.new_types[2].name.kind = name_kind_var

-----------------------------------------------------------------------------
(* Claims about ingestion after a failure *)

\* index_ast_node() returns from a call that met a store failure, or from a
\* later call of a run in which some call met one
CallAtOrAfterFailure ==
    /\ tu \in Mains
    /\ ~trapped
    /\ todo' # todo
    /\ ncalls' > 0

\* the alias of a record this unit has a reference for, not yet in the
\* store, is next, and no record waits for its name
NewTypedefNext ==
    /\ tu \in Mains
    /\ ~trapped
    /\ todo # << >>
    /\ Head(todo).kind = "TypedefDecl"
    /\ cursor_is_indexable(Head(todo))
    /\ ctx.last_struct = 0
    /\ db.db_kind # db_kind_nop
    /\ cf_map8_has(ctx.type_map, Head(todo).type)
    /\ cf_db_typename_lookup(db, update_location(ctx, Head(todo)).loc,
           [kind |-> name_kind_typedef,
            base_type |-> cf_map8_lookup(ctx.type_map, Head(todo).type),
            name |-> Head(todo).name]).err = ENOENT

\* the call added a typename row of the cursor's name
NameCommitted ==
    \E i \in (Len(db.typenames) + 1)..Len(db'.typenames) :
        /\ db'.typenames[i].name = Head(todo).name
        /\ db'.typenames[i].line = Head(todo).pos

\* C30: a store failure met while one declaration is indexed does not end
\* ingestion: the call returns without abort, and every later declaration
\* of the unit is visited and, when its own call meets no failure,
\* committed.
C30_IngestionProceeds ==
    [][ CallAtOrAfterFailure =>
          /\ ~trapped'
          /\ (ret'.eng = "run" /\ NewTaggedRecordNext) =>
                 /\ Len(db'.user_types) > Len(db.user_types)
                 /\ db'.user_types[Len(db.user_types) + 1].line = Head(todo).pos
                 /\ NameCommitted
          /\ (ret'.eng = "run" /\ NewTypedefNext) => NameCommitted ]_vars

-----------------------------------------------------------------------------
(* Claims about aliases *)

\* index_ast_node() is about to index an alias whose pre-lookup finds a
\* typename of another base type, while no record waits for its name
MismatchedTypedefNext ==
    /\ tu \in Mains
    /\ ~trapped
    /\ todo # << >>
    /\ Head(todo).kind = "TypedefDecl"
    /\ cursor_is_indexable(Head(todo))
    /\ ctx.last_struct = 0
    /\ cf_map8_has(ctx.type_map, Head(todo).type)
    /\ \E r \in {cf_db_typename_lookup(db, update_location(ctx, Head(todo)).loc,
                    [kind |-> name_kind_typedef,
                     base_type |-> cf_map8_lookup(ctx.type_map, Head(todo).type),
                     name |-> Head(todo).name])} :
           /\ r.err = OK
           /\ r.out # cf_map8_lookup(ctx.type_map, Head(todo).type)

\* C31: when the pre-lookup of an alias finds a typename whose base type
\* differs from the one being indexed, the store is left unchanged: the
\* existing row is neither altered nor duplicated.
C31_MismatchKeepsStore ==
    [][ (MismatchedTypedefNext /\ todo' # todo) => db' = db ]_vars

\* a unit has been indexed to its end and the store holds, once, an alias
\* of a base type other than the one the unit's type map has for it
C31_MismatchedAliasKept ==
    /\ tu \in Mains
    /\ ~trapped
    /\ todo = << >>
    /\ Len(units) = 2
    /\ db.db_kind = db_kind_sql
    /\ \E i \in 1..Len(Entries(units[2].header)) :
         \E c \in {Entries(units[2].header)[i]} :
           /\ c.kind = "TypedefDecl"
           /\ cf_map8_has(ctx.type_map, c.type)
           /\ \E k \in 1..Len(db.typenames) :
                /\ db.typenames[k].name = c.name
                /\ db.typenames[k].kind = name_kind_typedef
                /\ db.typenames[k].base_type
                      # cf_map8_lookup(ctx.type_map, c.type)
                /\ \A j \in 1..Len(db.typenames) :
                      db.typenames[j].name = c.name => j = k

-----------------------------------------------------------------------------
(* Claims about reading rows of the on-disk store *)

\* the find statement of the cursor is at a row with a negative integer in
\* a column that is read as unsigned
AtNegativeColumn ==
    /\ db.db_kind = db_kind_sql
    /\ iter.open
    /\ iter.stmt.state = "row"
    /\ \E i \in 2..Len(typename_find_outputs) :
          /\ stmt_columns(db, iter.stmt)[i].type = "SQLITE_INTEGER"
          /\ stmt_columns(db, iter.stmt)[i].val < 0

\* C32: the select routine rejects a negative integer read from the engine
\* for an unsigned column: the read fails as corrupt, and the value is never
\* delivered to the caller.
C32_NegativeRejected ==
    /\ AtNegativeColumn =>
          select_serial_row(stmt_columns(db, iter.stmt),
                            typename_find_outputs).err = EILSEQ
    /\ (db.db_kind = db_kind_sql /\ ret.op = "iter_peek") =>
          /\ ret.file >= 0
          /\ ret.out >= 0
          /\ ret.kind >= 0

-----------------------------------------------------------------------------
(* Claims about prepared statements *)

\* C33: every call on the on-disk store that compiles a statement finalizes
\* it before it returns, on success and on every error path: between the
\* calls of the indexer, which holds no typename-find cursor, the
\* connection has no statement left.
C33_StatementsFinalized ==
    (db.db_kind = db_kind_sql /\ ~iter.open) => db.stmts = 0

-----------------------------------------------------------------------------
(* Binding a row to an insert statement (sql_query.c).  Row identifiers are
   64-bit: an unsigned 64-bit value is kept as its bit 63, bits 62..32, bit
   31 and bits 30..0, an unsigned 32-bit value as its bit 31 and bits 30..0,
   so that no part exceeds INT_MAX. *)

INT_MAX == 2147483647

U64(b63, hi, b31, lo) == [b63 |-> b63, hi |-> hi, b31 |-> b31, lo |-> lo]
U32(b31, lo) == [b31 |-> b31, lo |-> lo]

\* column_val_t: a union; .as is the member that was written
as_uint32(w) == [as |-> "uint32", w |-> w]
as_uint64(v) == [as |-> "uint64", v |-> v]
as_str(str) == [as |-> "str", str |-> str]

\* val->uint32_val: of a union whose uint64_val was written it is the first
\* four bytes of the value, the low word on a little-endian build and the
\* high word on a big-endian one
uint32_val(u, endian) ==
    CASE u.as = "uint32" -> u.w
      [] u.as = "uint64" /\ endian = "little" -> U32(u.v.b31, u.v.lo)
      [] u.as = "uint64" /\ endian = "big" -> U32(u.v.b63, u.v.hi)

\* bind_one_column(): [err, bound]; bound is the signed integer (or the
\* text) handed to sqlite3_bind_int(), sqlite3_bind_int64() or
\* sqlite3_bind_text(), which the stepped insert stores
bind_one_column(column_kind, val, endian) ==
    CASE column_kind = "column_uint32" ->
           Only({ IF w.b31 = 1 THEN [err |-> ERANGE, bound |-> U64(0, 0, 0, 0)]
                  ELSE [err |-> OK, bound |-> U64(0, 0, 0, w.lo)] :
                  w \in {uint32_val(val, endian)} })
      [] column_kind = "column_uint64" ->
           IF val.v.b63 = 1 THEN [err |-> ERANGE, bound |-> U64(0, 0, 0, 0)]
           ELSE [err |-> OK, bound |-> val.v]
      [] column_kind = "column_str" -> [err |-> OK, bound |-> val.str]

\* bind_serial_row(): [err, bound]; the first column that cannot be bound
\* ends the binding with its error
bind_serial_row(kinds, vals, endian) ==
    LET bad == { i \in 1..Len(kinds) :
                   bind_one_column(kinds[i], vals[i], endian).err # OK }
    IN  IF bad # {}
        THEN [err |-> bind_one_column(
                          kinds[CHOOSE i \in bad : \A j \in bad : i <= j],
                          vals[CHOOSE i \in bad : \A j \in bad : i <= j],
                          endian).err,
              bound |-> << >>]
        ELSE [err |-> OK,
              bound |-> [i \in 1..Len(kinds) |->
                            bind_one_column(kinds[i], vals[i], endian).bound]]

\* the column kinds of the insert statements, for the columns the model
\* keeps.  typename: name, kind, base_type, file, scope, line
typename_insert_query ==
    << "column_str", "column_uint32", "column_uint32", "column_uint64",
       "column_uint32", "column_uint32" >>
\* type_use: base_type, kind, file
type_use_insert_query == << "column_uint64", "column_uint32", "column_uint64" >>
\* member: parent, base_type, name, file
member_insert_query ==
    << "column_uint64", "column_uint64", "column_str", "column_uint64" >>

bind_typename_insert(loc, name, endian) ==
    bind_serial_row(typename_insert_query,
        << as_str(name.name), as_uint32(U32(0, name.kind)),
           as_uint64(name.base_type), as_uint64(loc.file),
           as_uint32(U32(0, loc.scope)), as_uint32(U32(0, loc.line)) >>,
        endian)

bind_type_use_insert(loc, entry, endian) ==
    bind_serial_row(type_use_insert_query,
        << as_uint64(entry.base_type), as_uint32(U32(0, entry.kind)),
           as_uint64(loc.file) >>,
        endian)

bind_member_insert(loc, entry, endian) ==
    bind_serial_row(member_insert_query,
        << as_uint64(entry.parent), as_uint64(entry.base_type),
           as_str(entry.name), as_uint64(loc.file) >>,
        endian)

\* row identifiers the engine can assign: 1 .. INT64_MAX
RowIds ==
    { U64(0, hi, b31, lo) :
        hi \in {0, 1, INT_MAX}, b31 \in {0, 1}, lo \in {0, 1, 2, INT_MAX} }
    \ { U64(0, 0, 0, 0) }

Endians == {"little", "big"}

\* a client binds the row of a typename, of a type use or of a member whose
\* type reference is any row identifier; ret keeps the reference in .file,
\* the build in .eng, the error in .err and the bound reference in .out
BindTypenameInsert ==
    /\ \E base \in RowIds, endian \in Endians, kind \in ClientKinds :
         \E r \in {bind_typename_insert(
                       [file |-> U64(0, 0, 0, 1), scope |-> scope_global,
                        line |-> 0],
                       [kind |-> kind, base_type |-> base, name |-> "foo"],
                       endian)} :
             ret' = [NoCall EXCEPT !.op = "bind_typename_insert",
                        !.kind = kind, !.eng = endian, !.file = base,
                        !.err = r.err,
                        !.out = IF r.err = OK THEN r.bound[3] ELSE NoRef]
    /\ UNCHANGED <<db, ctx, trapped, tu, todo, units, ncalls, handles, iter,
                   env, freed>>

BindTypeUseInsert ==
    /\ \E base \in RowIds, endian \in Endians :
         \E r \in {bind_type_use_insert(
                       [file |-> U64(0, 0, 0, 1)],
                       [base_type |-> base, kind |-> type_use_decl],
                       endian)} :
             ret' = [NoCall EXCEPT !.op = "bind_type_use_insert",
                        !.eng = endian, !.file = base, !.err = r.err,
                        !.out = IF r.err = OK THEN r.bound[1] ELSE NoRef]
    /\ UNCHANGED <<db, ctx, trapped, tu, todo, units, ncalls, handles, iter,
                   env, freed>>

BindMemberInsert ==
    /\ \E base \in RowIds, endian \in Endians :
         \E r \in {bind_member_insert(
                       [file |-> U64(0, 0, 0, 1)],
                       [parent |-> U64(0, 0, 0, 1), base_type |-> base,
                        name |-> "a"],
                       endian)} :
             ret' = [NoCall EXCEPT !.op = "bind_member_insert",
                        !.eng = endian, !.file = base, !.err = r.err,
                        !.out = IF r.err = OK THEN r.bound[2] ELSE NoRef]
    /\ UNCHANGED <<db, ctx, trapped, tu, todo, units, ncalls, handles, iter,
                   env, freed>>

BindNext == BindTypenameInsert \/ BindTypeUseInsert \/ BindMemberInsert

BindInit ==
    /\ db = new_db(db_kind_sql, FALSE)
    /\ ctx = make_index_ctx
    /\ trapped = FALSE
    /\ tu = ""
    /\ todo = << >>
    /\ units = << >>
    /\ ncalls = 0
    /\ ret = NoCall
    /\ handles = {}
    /\ iter = NoIter
    /\ env = DefaultEnv
    /\ freed = {}

BindSpec == BindInit /\ [][BindNext]_vars

-----------------------------------------------------------------------------
(* Claims about binding *)

\* C34: the typename insert accepts the given base_type for every valid row
\* identifier and stores it unchanged, exactly as the type references of
\* member and type-use rows are stored.
C34_BaseTypeStoredUnchanged ==
    ret.op \in {"bind_typename_insert", "bind_type_use_insert",
                "bind_member_insert"} =>
        /\ ret.err = OK
        /\ ret.out = ret.file

-----------------------------------------------------------------------------
(* A client inserting into an in-memory store whose allocations can fail *)

\* number of insert calls
MaxMemCalls == 3

\* where an insert call fails: nowhere, at the reservation of its entry, at
\* the reservation of its location, or at the copy of its name
MemFaults(op) ==
    {"run", op, "loc_reserve"}
    \cup (IF op \in {"typename_insert", "member_insert"} THEN {"str_dup"} ELSE {})

MemInit ==
    /\ db = new_db(db_kind_mem, FALSE)
    /\ ctx = make_index_ctx
    /\ trapped = FALSE
    /\ tu = ""
    /\ todo = << >>
    /\ units = << >>
    /\ ncalls = 0
    /\ ret = NoCall
    /\ handles = {}
    /\ iter = NoIter
    /\ env = DefaultEnv
    /\ freed = {}

MemTypeInsert ==
    /\ ncalls < MaxMemCalls
    /\ \E fault \in MemFaults("type_insert") :
         \E r \in {cf_db_type_insert([db EXCEPT !.eng = fault],
                       [file |-> 1, scope |-> scope_global, line |-> 0],
                       [kind |-> type_kind_struct, complete |-> TRUE])} :
             /\ db' = [r.db EXCEPT !.eng = "run"]
             /\ ret' = [NoCall EXCEPT !.op = "type_insert", !.eng = fault,
                                      !.err = r.err, !.out = r.out]
    /\ ncalls' = ncalls + 1
    /\ UNCHANGED <<ctx, trapped, tu, todo, units, handles, iter, env, freed>>

MemTypenameInsert ==
    /\ ncalls < MaxMemCalls
    /\ \E fault \in MemFaults("typename_insert"), name \in ClientNames :
         \E r \in {cf_db_typename_insert([db EXCEPT !.eng = fault],
                       [file |-> 1, scope |-> scope_global, line |-> 0],
                       [kind |-> name_kind_direct, base_type |-> 1,
                        name |-> name])} :
             /\ db' = [r.db EXCEPT !.eng = "run"]
             /\ ret' = [NoCall EXCEPT !.op = "typename_insert", !.eng = fault,
                                      !.name = name, !.err = r.err]
    /\ ncalls' = ncalls + 1
    /\ UNCHANGED <<ctx, trapped, tu, todo, units, handles, iter, env, freed>>

MemMemberInsert ==
    /\ ncalls < MaxMemCalls
    /\ \E fault \in MemFaults("member_insert"), name \in ClientNames :
         \E r \in {cf_db_member_insert([db EXCEPT !.eng = fault],
                       [file |-> 1, scope |-> scope_global, line |-> 0],
                       [parent |-> 1, base_type |-> NoRef, name |-> name])} :
             /\ db' = [r.db EXCEPT !.eng = "run"]
             /\ ret' = [NoCall EXCEPT !.op = "member_insert", !.eng = fault,
                                      !.name = name, !.err = r.err]
    /\ ncalls' = ncalls + 1
    /\ UNCHANGED <<ctx, trapped, tu, todo, units, handles, iter, env, freed>>

MemTypeUseInsert ==
    /\ ncalls < MaxMemCalls
    /\ \E fault \in MemFaults("type_use_insert") :
         \E r \in {cf_db_type_use_insert([db EXCEPT !.eng = fault],
                       [file |-> 1, scope |-> scope_global, line |-> 0],
                       [base_type |-> 1, kind |-> type_use_decl])} :
             /\ db' = [r.db EXCEPT !.eng = "run"]
             /\ ret' = [NoCall EXCEPT !.op = "type_use_insert", !.eng = fault,
                                      !.err = r.err]
    /\ ncalls' = ncalls + 1
    /\ UNCHANGED <<ctx, trapped, tu, todo, units, handles, iter, env, freed>>

MemNext ==
    MemTypeInsert \/ MemTypenameInsert \/ MemMemberInsert \/ MemTypeUseInsert

MemSpec == MemInit /\ [][MemNext]_vars

-----------------------------------------------------------------------------
(* Claims about the in-memory store *)

\* the location kept at index i of a location sequence is the one of entry i
LocOf(row, loc) ==
    /\ loc # indeterminate
    /\ loc.file = row.file

\* C35: in the in-memory store, after any sequence of insert calls,
\* successful or failed, each entity sequence and its location sequence have
\* the same length, and the location of entry i is at index i.
C35_LocsAligned ==
    db.db_kind = db_kind_mem =>
        /\ Len(db.locs.type_idx) = Len(db.user_types)
        /\ Len(db.locs.typename_idx) = Len(db.typenames)
        /\ Len(db.locs.member_idx) = Len(db.members)
        /\ Len(db.locs.type_use_idx) = Len(db.type_uses)
        /\ \A i \in 1..Len(db.user_types) :
              LocOf(db.user_types[i], db.locs.type_idx[i])
        /\ \A i \in 1..Len(db.typenames) :
              LocOf(db.typenames[i], db.locs.typename_idx[i])
        /\ \A i \in 1..Len(db.members) :
              LocOf(db.members[i], db.locs.member_idx[i])
        /\ \A i \in 1..Len(db.type_uses) :
              LocOf(db.type_uses[i], db.locs.type_use_idx[i])

-----------------------------------------------------------------------------
(* Claims about the database file *)

\* C36: executing a query command never changes the database: opening the
\* store for the query and running any search creates, alters or removes no
\* file, table or row.
C36_QueryLeavesDatabase ==
    [][ ret'.op = "main" => db' = db ]_vars

-----------------------------------------------------------------------------
(* Claims about type references *)

\* the references type_map_insert() is about to be given by the commit of
\* the tagged record that index_ast_node() indexes next: the answer of the
\* pre-lookup of commit_one_struct() for the record itself, which is staged
\* first
PreLookupRefs ==
    IF /\ tu \in Mains
       /\ ~trapped
       /\ todo # << >>
       /\ is_tag(Head(todo))
       /\ cursor_is_indexable(Head(todo))
       /\ get_struct_name_kind(Head(todo)) = struct_name_direct
       /\ ctx.last_struct = 0
    THEN { r.out : r \in { f \in {cf_db_typename_lookup(db,
                                     update_location(ctx, Head(todo)).loc,
                                     [kind |-> name_kind_direct,
                                      base_type |-> NoRef,
                                      name |-> Head(todo).name])} :
                           f.err = OK } }
    ELSE {}

\* C37: every type reference inserted into the type map of the unit or into
\* the scratch map is non-zero: the assertion in type_map_insert() does not
\* fail, on any back-end and for any order of declarations.
C37_TypeRefNonZero ==
    /\ ~trapped
    /\ \A ref \in PreLookupRefs : ref # NoRef
    /\ \A i \in 1..Len(ctx.type_map) : ctx.type_map[i].value # NoRef

-----------------------------------------------------------------------------
(* The vector library (cf_vector.c), one step per library call *)

\* flag bits packed in cf_vec_t::packed_data
CF_VEC_RESERVED == 1
CF_VEC_ITERATED == 2

\* ITER_OFFSET_UNSTARTED
ITER_OFFSET_UNSTARTED == SIZE_MAX

\* a pointer into the heap buffer of a vector: NULL, or the offset of an entry
NullPtr == [null |-> TRUE, off |-> 0]
PtrTo(off) == [null |-> FALSE, off |-> off]

\* cf_vec_make(): a cf_vec_t of stride 1 with no allocation; `data` is the
\* pointer component of packed_data being non-NULL, `bits` its flag bits, and
\* `offset` the cf_vec_iter_t borrowing from the vector
cf_vec_make ==
    [len |-> 0, capacity |-> 0, data |-> FALSE, bits |-> {},
     offset |-> ITER_OFFSET_UNSTARTED]

\* assert_vec(): TRUE when every assertion passes
assert_vec(vec) ==
    /\ vec.len <= vec.capacity
    /\ IF ~vec.data
       THEN /\ CF_VEC_RESERVED \notin vec.bits
            /\ vec.len = 0
            /\ vec.capacity = 0
       ELSE /\ vec.bits = {CF_VEC_RESERVED} => vec.capacity > 0
            /\ vec.bits # {CF_VEC_RESERVED, CF_VEC_ITERATED}

\* assert_vec_iter()
assert_vec_iter(vec) ==
    /\ assert_vec(vec)
    /\ vec.offset # ITER_OFFSET_UNSTARTED => vec.offset <= vec.len

\* grow_strategy(): 8 more elements on each resize
grow_strategy(old_capacity) == old_capacity + 8

\* cf_vec_reserve(): [vec, ok, ret]; ok is FALSE when an assertion fails,
\* nomem says that cf_realloc() has no memory left
cf_vec_reserve(vec, nomem) ==
    IF ~(assert_vec(vec) /\ vec.bits = {})
    THEN [vec |-> vec, ok |-> FALSE, ret |-> NullPtr]
    ELSE IF vec.len = vec.capacity /\ nomem
    THEN [vec |-> vec, ok |-> TRUE, ret |-> NullPtr]
    ELSE [vec |-> [vec EXCEPT
                     !.capacity = IF vec.len = @ THEN grow_strategy(@) ELSE @,
                     !.data = TRUE,
                     !.bits = @ \cup {CF_VEC_RESERVED}],
          ok |-> TRUE, ret |-> PtrTo(vec.len)]

\* cf_vec_commit()
cf_vec_commit(vec, reservation) ==
    IF ~(/\ assert_vec(vec)
         /\ vec.bits = {CF_VEC_RESERVED}
         /\ reservation = PtrTo(vec.len))
    THEN [vec |-> vec, ok |-> FALSE]
    ELSE [vec |-> [vec EXCEPT !.len = @ + 1,
                              !.bits = @ \ {CF_VEC_RESERVED}],
          ok |-> TRUE]

\* cf_vec_abort()
cf_vec_abort(vec, reservation) ==
    IF ~(/\ assert_vec(vec)
         /\ vec.bits = {CF_VEC_RESERVED}
         /\ reservation = PtrTo(vec.len))
    THEN [vec |-> vec, ok |-> FALSE]
    ELSE [vec |-> [vec EXCEPT !.bits = @ \ {CF_VEC_RESERVED}], ok |-> TRUE]

\* cf_vec_pop_start()
cf_vec_pop_start(vec) ==
    IF ~(assert_vec(vec) /\ vec.bits = {})
    THEN [vec |-> vec, ok |-> FALSE, ret |-> NullPtr]
    ELSE IF vec.len = 0
    THEN [vec |-> vec, ok |-> TRUE, ret |-> NullPtr]
    ELSE [vec |-> [vec EXCEPT !.bits = @ \cup {CF_VEC_RESERVED}],
          ok |-> TRUE, ret |-> PtrTo(vec.len - 1)]

\* cf_vec_pop_end()
cf_vec_pop_end(vec, pop_value) ==
    IF ~(/\ assert_vec(vec)
         /\ vec.bits = {CF_VEC_RESERVED}
         /\ vec.len > 0
         /\ pop_value = PtrTo(vec.len - 1))
    THEN [vec |-> vec, ok |-> FALSE]
    ELSE [vec |-> [vec EXCEPT !.len = @ - 1,
                              !.bits = @ \ {CF_VEC_RESERVED}],
          ok |-> TRUE]

\* cf_vec_len(): [ok, ret]
cf_vec_len(vec) == [ok |-> assert_vec(vec), ret |-> vec.len]

\* cf_vec_iter_make()
cf_vec_iter_make(vec) ==
    IF ~(assert_vec(vec) /\ vec.bits = {})
    THEN [vec |-> vec, ok |-> FALSE]
    ELSE [vec |-> [vec EXCEPT !.bits = @ \cup {CF_VEC_ITERATED},
                              !.offset = ITER_OFFSET_UNSTARTED],
          ok |-> TRUE]

\* cf_vec_iter_free()
cf_vec_iter_free(vec) ==
    IF ~(assert_vec_iter(vec) /\ vec.bits = {CF_VEC_ITERATED})
    THEN [vec |-> vec, ok |-> FALSE]
    ELSE [vec |-> [vec EXCEPT !.bits = @ \ {CF_VEC_ITERATED},
                              !.offset = ITER_OFFSET_UNSTARTED],
          ok |-> TRUE]

\* cf_vec_iter_next(): [vec, ret]
cf_vec_iter_next(vec) ==
    Only({ [vec |-> [vec EXCEPT !.offset = offset], ret |-> offset < vec.len] :
           offset \in {IF vec.offset = ITER_OFFSET_UNSTARTED THEN 0
                       ELSE vec.offset + 1} })

\* cf_vec_iter_peek(): TRUE when every assertion passes
cf_vec_iter_peek(vec) ==
    assert_vec_iter(vec) /\ vec.offset # ITER_OFFSET_UNSTARTED

\* cf_vec_reset()
cf_vec_reset(vec) ==
    IF vec.bits # {} THEN [vec |-> vec, ok |-> FALSE]
    ELSE [vec |-> [vec EXCEPT !.len = 0], ok |-> TRUE]

\* cf_vec_free(): the heap buffer is released, the length and the data
\* pointer are left as they are
cf_vec_free(vec) == [vec |-> vec, ok |-> assert_vec(vec) /\ vec.bits = {}]

-----------------------------------------------------------------------------
(* The callers of the vector library, as the library calls they make *)

\* one step of a caller: a library call on a vector, an allocation (alloc), a
\* branch the data decides (goto), a dereference of a NULL pointer or a failed
\* assertion of the caller (crash); `then` is the step after
reserve(vec, then, null) ==
    [do |-> "reserve", vec |-> vec, then |-> then, null |-> null]
commit(vec, then) == [do |-> "commit", vec |-> vec, then |-> then]
abort(vec, then) == [do |-> "abort", vec |-> vec, then |-> then]
pop_start(vec, then, null) ==
    [do |-> "pop_start", vec |-> vec, then |-> then, null |-> null]
pop_end(vec, then) == [do |-> "pop_end", vec |-> vec, then |-> then]
vec_len(vec, then, zero) ==
    [do |-> "len", vec |-> vec, then |-> then, zero |-> zero]
iter_make(vec, then) == [do |-> "iter_make", vec |-> vec, then |-> then]
iter_next(vec, then, end) ==
    [do |-> "iter_next", vec |-> vec, then |-> then, end |-> end]
iter_peek(vec, then) == [do |-> "iter_peek", vec |-> vec, then |-> then]
iter_free(vec, then) == [do |-> "iter_free", vec |-> vec, then |-> then]
vec_reset(vec, then) == [do |-> "reset", vec |-> vec, then |-> then]
vec_free(vec, then) == [do |-> "free", vec |-> vec, then |-> then]
vec_make(vec, then) == [do |-> "make", vec |-> vec, then |-> then]
alloc(then, null) == [do |-> "alloc", then |-> then, null |-> null]
goto(to) == [do |-> "goto", to |-> to]
crash == [do |-> "crash"]

\* the label after the last step of a handler: the handler has returned
Returned == ""

(* ---- mem_db.c ---- *)

\* mem_db_add_file()
mem_db_add_file_steps(p, then, fail) ==
       (p :> reserve("db->files", p \o ".cf_str_dup", fail))
    @@ (p \o ".cf_str_dup" :> alloc(p \o ".commit", p \o ".fail_file"))
    @@ (p \o ".commit" :> commit("db->files", p \o ".len"))
    @@ (p \o ".len" :> vec_len("db->files", then, then))
    @@ (p \o ".fail_file" :> abort("db->files", fail))

\* mem_db_typename_lookup(): the iterator is freed at the label fail, after
\* a match (found) and after the last entry (enoent)
mem_db_typename_lookup_steps(p, found, enoent) ==
       (p :> iter_make("db->typenames", p \o ".len"))
    @@ (p \o ".len" :> vec_len("db->typenames", p \o ".next", p \o ".fail"))
    @@ (p \o ".next" :> iter_next("db->typenames", p \o ".peek", p \o ".fail"))
    @@ (p \o ".peek" :> iter_peek("db->typenames", p \o ".match"))
    @@ (p \o ".match" :> goto({p \o ".next", p \o ".break"}))
    @@ (p \o ".break" :> iter_free("db->typenames", found))
    @@ (p \o ".fail" :> iter_free("db->typenames", enoent))

\* mem_db_type_insert()
mem_db_type_insert_steps(p, then, fail) ==
       (p :> reserve("db->user_types", p \o ".loc", fail))
    @@ (p \o ".loc" :>
            reserve("db->locs[type_idx]", p \o ".commit", p \o ".fail_loc"))
    @@ (p \o ".commit" :> commit("db->user_types", p \o ".commit_loc"))
    @@ (p \o ".commit_loc" :> commit("db->locs[type_idx]", p \o ".len"))
    @@ (p \o ".len" :> vec_len("db->user_types", then, then))
    @@ (p \o ".fail_loc" :> abort("db->user_types", fail))

\* a mem_db_typename_insert() whose fail_loc path returns without aborting the
\* typename reservation
mem_db_typename_insert_steps_unaborted(p, then, fail) ==
       (p :> reserve("db->typenames", p \o ".loc", fail))
    @@ (p \o ".loc" :>
            reserve("db->locs[typename_idx]", p \o ".cf_str_dup",
                    p \o ".fail_loc"))
    @@ (p \o ".cf_str_dup" :> alloc(p \o ".commit", p \o ".fail_copy"))
    @@ (p \o ".commit" :> commit("db->typenames", p \o ".commit_loc"))
    @@ (p \o ".commit_loc" :> commit("db->locs[typename_idx]", then))
    @@ (p \o ".fail_copy" :> abort("db->locs[typename_idx]", p \o ".fail_loc"))
    @@ (p \o ".fail_loc" :> goto({fail}))

\* mem_db_typename_insert()
mem_db_typename_insert_steps(p, then, fail) ==
       (p :> reserve("db->typenames", p \o ".loc", fail))
    @@ (p \o ".loc" :>
            reserve("db->locs[typename_idx]", p \o ".cf_str_dup",
                    p \o ".fail_loc"))
    @@ (p \o ".cf_str_dup" :> alloc(p \o ".commit", p \o ".fail_copy"))
    @@ (p \o ".commit" :> commit("db->typenames", p \o ".commit_loc"))
    @@ (p \o ".commit_loc" :> commit("db->locs[typename_idx]", then))
    @@ (p \o ".fail_copy" :> abort("db->locs[typename_idx]", p \o ".fail_loc"))
    @@ (p \o ".fail_loc" :> abort("db->typenames", fail))

\* mem_db_member_insert(): fail_copy commits the location
mem_db_member_insert_steps(p, then, fail) ==
       (p :> reserve("db->members", p \o ".loc", fail))
    @@ (p \o ".loc" :>
            reserve("db->locs[member_idx]", p \o ".cf_str_dup",
                    p \o ".fail_loc"))
    @@ (p \o ".cf_str_dup" :> alloc(p \o ".commit", p \o ".fail_copy"))
    @@ (p \o ".commit" :> commit("db->members", p \o ".commit_loc"))
    @@ (p \o ".commit_loc" :> commit("db->locs[member_idx]", then))
    @@ (p \o ".fail_copy" :> commit("db->locs[member_idx]", p \o ".fail_loc"))
    @@ (p \o ".fail_loc" :> abort("db->members", fail))

\* mem_db_type_use_insert()
mem_db_type_use_insert_steps(p, then, fail) ==
       (p :> reserve("db->type_uses", p \o ".loc", fail))
    @@ (p \o ".loc" :>
            reserve("db->locs[type_use_idx]", p \o ".commit",
                    p \o ".fail_loc"))
    @@ (p \o ".commit" :> commit("db->type_uses", p \o ".commit_loc"))
    @@ (p \o ".commit_loc" :> commit("db->locs[type_use_idx]", then))
    @@ (p \o ".fail_loc" :> abort("db->type_uses", fail))

\* mem_db_member_lookup(): a match copies the name out
mem_db_member_lookup_steps(p, found, enoent) ==
       (p :> iter_make("db->members", p \o ".len"))
    @@ (p \o ".len" :> vec_len("db->members", p \o ".next", p \o ".fail"))
    @@ (p \o ".next" :> iter_next("db->members", p \o ".peek", p \o ".fail"))
    @@ (p \o ".peek" :> iter_peek("db->members", p \o ".match"))
    @@ (p \o ".match" :> goto({p \o ".next", p \o ".cf_str_dup_str"}))
    @@ (p \o ".cf_str_dup_str" :> alloc(p \o ".break", p \o ".fail"))
    @@ (p \o ".break" :> iter_free("db->members", found))
    @@ (p \o ".fail" :> iter_free("db->members", enoent))

\* the loop of mem_db_free_files(), mem_db_free_typenames() and
\* mem_db_free_members(): free every string, then the vector
mem_db_free_strings_steps(vec, p, then) ==
       (p :> iter_make(vec, p \o ".next"))
    @@ (p \o ".next" :> iter_next(vec, p \o ".peek", p \o ".iter_free"))
    @@ (p \o ".peek" :> iter_peek(vec, p \o ".next"))
    @@ (p \o ".iter_free" :> iter_free(vec, p \o ".free"))
    @@ (p \o ".free" :> vec_free(vec, then))

\* mem_db_close(): free every vector of the store
mem_db_close_steps(p, then) ==
       (p :> vec_len("db->files", p \o ".files", p \o ".files"))
    @@ mem_db_free_strings_steps("db->files", p \o ".files", p \o ".types")
    @@ (p \o ".types" :> vec_free("db->user_types", p \o ".typenames"))
    @@ mem_db_free_strings_steps("db->typenames", p \o ".typenames",
                                 p \o ".members")
    @@ mem_db_free_strings_steps("db->members", p \o ".members",
                                 p \o ".type_uses")
    @@ (p \o ".type_uses" :> vec_free("db->type_uses", p \o ".locs0"))
    @@ (p \o ".locs0" :> vec_free("db->locs[type_idx]", p \o ".locs1"))
    @@ (p \o ".locs1" :> vec_free("db->locs[typename_idx]", p \o ".locs2"))
    @@ (p \o ".locs2" :> vec_free("db->locs[member_idx]", p \o ".locs3"))
    @@ (p \o ".locs3" :> vec_free("db->locs[type_use_idx]", then))

(* ---- cf_vector.c, cf_map.c ---- *)

\* cf_vec_push(): reserve, copy, commit
cf_vec_push_steps(vec, p, then, fail) ==
       (p :> reserve(vec, p \o ".commit", fail))
    @@ (p \o ".commit" :> commit(vec, then))

\* lookup_internal(): iterate over every entry of the map; the iterator is
\* freed after a match (found) and after the last entry (missing)
lookup_internal_steps(map, p, found, missing) ==
       (p :> vec_len(map, p \o ".iter_make", missing))
    @@ (p \o ".iter_make" :> iter_make(map, p \o ".next"))
    @@ (p \o ".next" :> iter_next(map, p \o ".peek", p \o ".iter_free"))
    @@ (p \o ".peek" :> iter_peek(map, p \o ".match"))
    @@ (p \o ".match" :> goto({p \o ".next", p \o ".break"}))
    @@ (p \o ".break" :> iter_free(map, found))
    @@ (p \o ".iter_free" :> iter_free(map, missing))

(* ---- cf_index.c ---- *)

\* cursor_stack_descend()
cursor_stack_descend_steps(parent_stack, p, then, fail) ==
       (p :> reserve(parent_stack, p \o ".commit", fail))
    @@ (p \o ".commit" :> commit(parent_stack, then))

\* type_map_insert(): the reservation is written through unchecked
type_map_insert_steps(map, p, then) ==
       (p :> reserve(map, p \o ".commit", p \o ".null"))
    @@ (p \o ".null" :> crash)
    @@ (p \o ".commit" :> commit(map, then))

\* index_struct_record(): the record goes to new_types, an unnamed record
\* also to unnamed_types
index_struct_record_steps(p, then) ==
       cf_vec_push_steps("sb->new_types", p, p \o ".kind", then)
    @@ (p \o ".kind" :> goto({p \o ".unnamed", then}))
    @@ (p \o ".unnamed" :>
            vec_len("sb->new_types", p \o ".new_entry", p \o ".null"))
    @@ (p \o ".new_entry" :>
            reserve("sb->unnamed_types", p \o ".new_entry.commit",
                    p \o ".null"))
    @@ (p \o ".null" :> crash)
    @@ (p \o ".new_entry.commit" :> commit("sb->unnamed_types", then))

\* index_member(): build_member_record() then build_member_type_use()
index_member_steps(p, then) ==
       cf_vec_push_steps("sb->members", p, p \o ".type_use", p \o ".type_use")
    @@ (p \o ".type_use" :> goto({p \o ".push", then}))
    @@ cf_vec_push_steps("sb->type_uses", p \o ".push", then, then)

\* index_struct_finalizer(): pop the current parent when recursion of its
\* children completed
index_struct_finalizer_steps(p, then) ==
       (p :> vec_len("sb->current_parent_stack", p \o ".equal", then))
    @@ (p \o ".equal" :> goto({p \o ".pop_start", then}))
    @@ (p \o ".pop_start" :>
            pop_start("sb->current_parent_stack", p \o ".pop_end", p \o ".null"))
    @@ (p \o ".null" :> crash)
    @@ (p \o ".pop_end" :> pop_end("sb->current_parent_stack", then))

\* index_type_children_cb(): index_type_children_cb2() indexes a nested
\* record or a member, then a named nested record becomes the current parent.
\* The result is Recurse for a record (then) and Continue otherwise (skip).
index_type_children_cb_steps(p, then, skip) ==
       (p :> goto({p \o ".record", p \o ".field", skip}))
    @@ index_struct_record_steps(p \o ".record", p \o ".new_parent")
    @@ (p \o ".new_parent" :> goto({p \o ".descend", then}))
    @@ cursor_stack_descend_steps("sb->current_parent_stack", p \o ".descend",
                                  then, then)
    @@ (p \o ".field" :> vec_len("sb->current_parent_stack", p \o ".member",
                                 p \o ".null"))
    @@ (p \o ".null" :> crash)
    @@ index_member_steps(p \o ".member", skip)

\* the while loop of iterate_children_cb(): pop path.parent_stack until its
\* top is the parent, with the finalizer called between pop_start and
\* pop_end; the top of an empty stack is NULL and is dereferenced
ascend_steps(on_stack, p, then) ==
       (p :> [do |-> "top", vec |-> "sb->path.parent_stack",
              on_stack |-> on_stack, equal |-> then,
              differ |-> p \o ".pop_start", null |-> p \o ".null"])
    @@ (p \o ".null" :> crash)
    @@ (p \o ".pop_start" :>
            pop_start("sb->path.parent_stack", p \o ".final", then))
    @@ index_struct_finalizer_steps(p \o ".final", p \o ".pop_end")
    @@ (p \o ".pop_end" :> pop_end("sb->path.parent_stack", p))

\* iterate_children_cb() with cb = index_type_children_cb and final =
\* index_struct_finalizer.  When the cursor recursed into could not be pushed,
\* the parent of its children is not on the stack.
iterate_children_cb_steps(p, then) ==
       ascend_steps(TRUE, p, p \o ".cb")
    @@ index_type_children_cb_steps(p \o ".cb", p \o ".descend", then)
    @@ cursor_stack_descend_steps("sb->path.parent_stack", p \o ".descend",
                                  then, p \o ".children")
    @@ (p \o ".children" :> goto({p \o ".lost", then}))
    @@ ascend_steps(FALSE, p \o ".lost", p \o ".lost.null")

\* iterate_children(): push the root, visit the children, pop the top
iterate_children_steps(p, then) ==
       cursor_stack_descend_steps("sb->path.parent_stack", p, p \o ".visit",
                                  then)
    @@ (p \o ".visit" :> [do |-> "visit", cb |-> p \o ".cb",
                          then |-> p \o ".pop_start"])
    @@ iterate_children_cb_steps(p \o ".cb", p \o ".visit")
    @@ (p \o ".pop_start" :>
            pop_start("sb->path.parent_stack", p \o ".pop_end", p \o ".pop_end"))
    @@ (p \o ".pop_end" :> pop_end("sb->path.parent_stack", then))

\* index_struct_children()
index_struct_children_steps(p, then) ==
       cf_vec_push_steps("sb->current_parent_stack", p, p \o ".iterate",
                         p \o ".iterate")
    @@ iterate_children_steps(p \o ".iterate", then)

\* commit_one_struct()
commit_one_struct_steps(p, then) ==
       mem_db_typename_lookup_steps(p, p \o ".old", p \o ".type_insert")
    @@ type_map_insert_steps("ctx->type_map", p \o ".old", then)
    @@ mem_db_type_insert_steps(p \o ".type_insert", p \o ".typename_insert",
                                then)
    @@ mem_db_typename_insert_steps(p \o ".typename_insert", p \o ".new", then)
    @@ type_map_insert_steps("new_type_map", p \o ".new", then)

\* one loop of commit_struct_scoreboard() and free_struct_scoreboard_rsrc():
\* iterate over vec, running the steps at `body` for each entry
scoreboard_loop_steps(vec, p, body, then) ==
       (p :> iter_make(vec, p \o ".next"))
    @@ (p \o ".next" :> iter_next(vec, p \o ".peek", p \o ".iter_free"))
    @@ (p \o ".peek" :> iter_peek(vec, body))
    @@ (p \o ".iter_free" :> iter_free(vec, then))

\* translate_member_type(): zero for a primitive type, or a lookup in map1
\* and then in map2
translate_member_type_steps(map1, map2, p, found, missing) ==
       (p :> goto({found, p \o ".map1"}))
    @@ lookup_internal_steps(map1, p \o ".map1", found, p \o ".map2")
    @@ lookup_internal_steps(map2, p \o ".map2", found, missing)

\* commit_struct_scoreboard()
commit_struct_scoreboard_steps(p, then) ==
       (p :> vec_make("new_type_map", p \o ".new_types"))
    @@ scoreboard_loop_steps("sb->new_types", p \o ".new_types",
                             p \o ".unnamed", p \o ".members")
    @@ lookup_internal_steps("sb->unnamed_types", p \o ".unnamed",
                             p \o ".new_types.next",
                             p \o ".commit_one_struct")
    @@ commit_one_struct_steps(p \o ".commit_one_struct",
                               p \o ".new_types.next")
    @@ scoreboard_loop_steps("sb->members", p \o ".members",
                             p \o ".members.parent", p \o ".type_uses")
    @@ lookup_internal_steps("new_type_map", p \o ".members.parent",
                             p \o ".members.base", p \o ".members.next")
    @@ translate_member_type_steps("ctx->type_map", "new_type_map",
                                   p \o ".members.base",
                                   p \o ".members.insert",
                                   p \o ".members.next")
    @@ mem_db_member_insert_steps(p \o ".members.insert",
                                  p \o ".members.next", p \o ".members.next")
    @@ scoreboard_loop_steps("sb->type_uses", p \o ".type_uses",
                             p \o ".type_uses.where", p \o ".merge")
    @@ lookup_internal_steps("new_type_map", p \o ".type_uses.where",
                             p \o ".type_uses.base", p \o ".type_uses.next")
    @@ translate_member_type_steps("new_type_map", "ctx->type_map",
                                   p \o ".type_uses.base",
                                   p \o ".type_uses.insert",
                                   p \o ".type_uses.next")
    @@ mem_db_type_use_insert_steps(p \o ".type_uses.insert",
                                    p \o ".type_uses.next",
                                    p \o ".type_uses.next")
    @@ scoreboard_loop_steps("new_type_map", p \o ".merge",
                             p \o ".merge.insert", p \o ".free")
    @@ type_map_insert_steps("ctx->type_map", p \o ".merge.insert",
                             p \o ".merge.next")
    @@ (p \o ".free" :> vec_free("new_type_map", then))

\* free_struct_scoreboard_rsrc()
free_struct_scoreboard_rsrc_steps(p, then) ==
       scoreboard_loop_steps("sb->new_types", p, p \o ".next",
                             p \o ".members")
    @@ scoreboard_loop_steps("sb->members", p \o ".members",
                             p \o ".members.next", then)

\* reset_struct_scoreboard()
reset_struct_scoreboard_steps(p, then) ==
       (p :> vec_reset("sb->path.parent_stack", p \o ".parents"))
    @@ (p \o ".parents" :>
            vec_reset("sb->current_parent_stack", p \o ".rsrc"))
    @@ free_struct_scoreboard_rsrc_steps(p \o ".rsrc", p \o ".new_types")
    @@ (p \o ".new_types" :> vec_reset("sb->new_types", p \o ".sb_members"))
    @@ (p \o ".sb_members" :> vec_reset("sb->members", p \o ".type_uses"))
    @@ (p \o ".type_uses" :> vec_reset("sb->type_uses", p \o ".unnamed"))
    @@ (p \o ".unnamed" :> vec_reset("sb->unnamed_types", then))

\* index_struct(): the record, its children, then the commit of a named
\* record
index_struct_steps(p, then) ==
       (p :> vec_len("sb->new_types", p \o ".assert", p \o ".record"))
    @@ (p \o ".assert" :> crash)
    @@ index_struct_record_steps(p \o ".record", p \o ".children")
    @@ index_struct_children_steps(p \o ".children", p \o ".len")
    @@ (p \o ".len" :> vec_len("sb->new_types", p \o ".lookup", p \o ".assert"))
    @@ lookup_internal_steps("sb->unnamed_types", p \o ".lookup", then,
                             p \o ".commit")
    @@ commit_struct_scoreboard_steps(p \o ".commit", p \o ".reset")
    @@ reset_struct_scoreboard_steps(p \o ".reset", then)

-----------------------------------------------------------------------------
(* A program calling into the store and the indexer, one library call a step *)

\* number of events the program meets: a handler called, a cursor passed to
\* the callback of clang_visitChildren(), an allocation that finds no memory
MaxVecEvents == 3

\* the vectors of mem_db_t
DbVecs ==
    {"db->files", "db->user_types", "db->typenames", "db->members",
     "db->type_uses", "db->locs[type_idx]", "db->locs[typename_idx]",
     "db->locs[member_idx]", "db->locs[type_use_idx]"}

\* the vectors of index_ctx_t and its struct_scoreboard_t, and the
\* new_type_map of commit_struct_scoreboard()
IndexVecs ==
    {"sb->path.parent_stack", "sb->current_parent_stack", "sb->new_types",
     "sb->members", "sb->type_uses", "sb->unnamed_types", "ctx->type_map",
     "new_type_map"}

\* the entry points the program calls
VecHandlers ==
    {"mem_db_add_file", "mem_db_typename_lookup", "mem_db_type_insert",
     "mem_db_typename_insert", "mem_db_member_insert",
     "mem_db_type_use_insert", "mem_db_member_lookup", "index_struct",
     "mem_db_close"}

\* every step of every handler, by its label
vec_code ==
       mem_db_add_file_steps("mem_db_add_file", Returned, Returned)
    @@ mem_db_typename_lookup_steps("mem_db_typename_lookup", Returned,
                                    Returned)
    @@ mem_db_type_insert_steps("mem_db_type_insert", Returned, Returned)
    @@ mem_db_typename_insert_steps("mem_db_typename_insert", Returned,
                                    Returned)
    @@ mem_db_member_insert_steps("mem_db_member_insert", Returned, Returned)
    @@ mem_db_type_use_insert_steps("mem_db_type_use_insert", Returned,
                                    Returned)
    @@ mem_db_member_lookup_steps("mem_db_member_lookup", Returned, Returned)
    @@ index_struct_steps("index_struct", Returned)
    @@ mem_db_close_steps("mem_db_close", Returned)

\* the handler being run: its name, the step it is at, and the pointers its
\* open reservations and pops returned
NoHandler ==
    [op |-> "", pc |-> Returned,
     ptr |-> [n \in DbVecs \cup IndexVecs |-> NullPtr]]

VecInit ==
    /\ db = [n \in DbVecs |-> cf_vec_make]
    /\ ctx = [n \in IndexVecs |-> cf_vec_make]
    /\ trapped = FALSE
    /\ tu = ""
    /\ todo = << >>
    /\ units = << >>
    /\ ncalls = 0
    /\ ret = NoHandler
    /\ handles = {}
    /\ iter = NoIter
    /\ env = DefaultEnv
    /\ freed = {}

VecAt(n) == IF n \in DbVecs THEN db[n] ELSE ctx[n]

Running == ~trapped /\ ret.pc # Returned

Instr == vec_code[ret.pc]

\* the outcome r of a library call on vec: a failed assertion traps, otherwise
\* the vector changes and the handler moves on
VecStep(vec, r, frame) ==
    /\ trapped' = ~r.ok
    /\ db' = IF r.ok /\ vec \in DbVecs THEN [db EXCEPT ![vec] = r.vec] ELSE db
    /\ ctx' = IF r.ok /\ vec \in IndexVecs THEN [ctx EXCEPT ![vec] = r.vec]
              ELSE ctx
    /\ ret' = IF ~r.ok THEN ret
              ELSE IF frame.pc = Returned THEN NoHandler
              ELSE frame
    /\ UNCHANGED <<tu, handles, iter, env>>

VecCall ==
    /\ ~trapped
    /\ ret.pc = Returned
    /\ freed \cap DbVecs = {}
    /\ ncalls < MaxVecEvents
    /\ \E fn \in VecHandlers : ret' = [NoHandler EXCEPT !.op = fn, !.pc = fn]
    /\ ncalls' = ncalls + 1
    /\ UNCHANGED <<db, ctx, trapped, tu, todo, units, handles, iter, env,
                   freed>>

VecMake ==
    /\ Running
    /\ Instr.do = "make"
    /\ VecStep(Instr.vec, [vec |-> cf_vec_make, ok |-> TRUE],
               [ret EXCEPT !.pc = Instr.then])
    /\ freed' = freed \ {Instr.vec}
    /\ UNCHANGED <<todo, units, ncalls>>

VecReserve ==
    /\ Running
    /\ Instr.do = "reserve"
    /\ \E nomem \in {FALSE} \cup {ncalls < MaxVecEvents} :
         \E r \in {cf_vec_reserve(VecAt(Instr.vec), nomem)} :
             /\ VecStep(Instr.vec, r,
                        [ret EXCEPT !.ptr[Instr.vec] = r.ret,
                                    !.pc = IF r.ret.null THEN Instr.null
                                           ELSE Instr.then])
             /\ ncalls' = IF r.ok /\ r.ret.null THEN ncalls + 1 ELSE ncalls
    /\ UNCHANGED <<todo, units, freed>>

VecCommit ==
    /\ Running
    /\ Instr.do = "commit"
    /\ VecStep(Instr.vec, cf_vec_commit(VecAt(Instr.vec), ret.ptr[Instr.vec]),
               [ret EXCEPT !.ptr[Instr.vec] = NullPtr, !.pc = Instr.then])
    /\ UNCHANGED <<todo, units, ncalls, freed>>

VecAbort ==
    /\ Running
    /\ Instr.do = "abort"
    /\ VecStep(Instr.vec, cf_vec_abort(VecAt(Instr.vec), ret.ptr[Instr.vec]),
               [ret EXCEPT !.ptr[Instr.vec] = NullPtr, !.pc = Instr.then])
    /\ UNCHANGED <<todo, units, ncalls, freed>>

VecPopStart ==
    /\ Running
    /\ Instr.do = "pop_start"
    /\ \E r \in {cf_vec_pop_start(VecAt(Instr.vec))} :
         VecStep(Instr.vec, r,
                 [ret EXCEPT !.ptr[Instr.vec] = r.ret,
                             !.pc = IF r.ret.null THEN Instr.null
                                    ELSE Instr.then])
    /\ UNCHANGED <<todo, units, ncalls, freed>>

VecPopEnd ==
    /\ Running
    /\ Instr.do = "pop_end"
    /\ VecStep(Instr.vec, cf_vec_pop_end(VecAt(Instr.vec), ret.ptr[Instr.vec]),
               [ret EXCEPT !.ptr[Instr.vec] = NullPtr, !.pc = Instr.then])
    /\ UNCHANGED <<todo, units, ncalls, freed>>

VecLen ==
    /\ Running
    /\ Instr.do = "len"
    /\ \E r \in {cf_vec_len(VecAt(Instr.vec))} :
         VecStep(Instr.vec, [vec |-> VecAt(Instr.vec), ok |-> r.ok],
                 [ret EXCEPT !.pc = IF r.ret = 0 THEN Instr.zero
                                    ELSE Instr.then])
    /\ UNCHANGED <<todo, units, ncalls, freed>>

\* cursor_stack_top() compared with the parent: the top of an empty stack is
\* NULL; a parent on the stack is the top or beneath it
VecTop ==
    /\ Running
    /\ Instr.do = "top"
    /\ \E r \in {cf_vec_len(VecAt(Instr.vec))} :
         \E pc \in IF r.ret = 0 THEN {Instr.null}
                   ELSE (IF Instr.on_stack THEN {Instr.equal} ELSE {})
                        \cup (IF ~Instr.on_stack \/ r.ret > 1
                              THEN {Instr.differ} ELSE {}) :
             VecStep(Instr.vec, [vec |-> VecAt(Instr.vec), ok |-> r.ok],
                     [ret EXCEPT !.pc = pc])
    /\ UNCHANGED <<todo, units, ncalls, freed>>

VecIterMake ==
    /\ Running
    /\ Instr.do = "iter_make"
    /\ VecStep(Instr.vec, cf_vec_iter_make(VecAt(Instr.vec)),
               [ret EXCEPT !.pc = Instr.then])
    /\ UNCHANGED <<todo, units, ncalls, freed>>

VecIterNext ==
    /\ Running
    /\ Instr.do = "iter_next"
    /\ \E r \in {cf_vec_iter_next(VecAt(Instr.vec))} :
         VecStep(Instr.vec, [vec |-> r.vec, ok |-> TRUE],
                 [ret EXCEPT !.pc = IF r.ret THEN Instr.then ELSE Instr.end])
    /\ UNCHANGED <<todo, units, ncalls, freed>>

VecIterPeek ==
    /\ Running
    /\ Instr.do = "iter_peek"
    /\ VecStep(Instr.vec, [vec |-> VecAt(Instr.vec),
                           ok |-> cf_vec_iter_peek(VecAt(Instr.vec))],
               [ret EXCEPT !.pc = Instr.then])
    /\ UNCHANGED <<todo, units, ncalls, freed>>

VecIterFree ==
    /\ Running
    /\ Instr.do = "iter_free"
    /\ VecStep(Instr.vec, cf_vec_iter_free(VecAt(Instr.vec)),
               [ret EXCEPT !.pc = Instr.then])
    /\ UNCHANGED <<todo, units, ncalls, freed>>

VecReset ==
    /\ Running
    /\ Instr.do = "reset"
    /\ VecStep(Instr.vec, cf_vec_reset(VecAt(Instr.vec)),
               [ret EXCEPT !.pc = Instr.then])
    /\ UNCHANGED <<todo, units, ncalls, freed>>

VecFree ==
    /\ Running
    /\ Instr.do = "free"
    /\ \E r \in {cf_vec_free(VecAt(Instr.vec))} :
         /\ VecStep(Instr.vec, r, [ret EXCEPT !.pc = Instr.then])
         /\ freed' = IF r.ok THEN freed \cup {Instr.vec} ELSE freed
    /\ UNCHANGED <<todo, units, ncalls>>

\* cf_malloc() in cf_str_dup()
VecAlloc ==
    /\ Running
    /\ Instr.do = "alloc"
    /\ \E nomem \in {FALSE} \cup {ncalls < MaxVecEvents} :
         /\ ret' = [ret EXCEPT !.pc = IF nomem THEN Instr.null ELSE Instr.then]
         /\ ncalls' = IF nomem THEN ncalls + 1 ELSE ncalls
    /\ UNCHANGED <<db, ctx, trapped, tu, todo, units, handles, iter, env,
                   freed>>

\* a branch the data decides
VecGoto ==
    /\ Running
    /\ Instr.do = "goto"
    /\ \E pc \in Instr.to :
         ret' = IF pc = Returned THEN NoHandler ELSE [ret EXCEPT !.pc = pc]
    /\ UNCHANGED <<db, ctx, trapped, tu, todo, units, ncalls, handles, iter,
                   env, freed>>

\* clang_visitChildren(): the callback for the next cursor, or the end of
\* the visit
VecVisit ==
    /\ Running
    /\ Instr.do = "visit"
    /\ \/ /\ ncalls < MaxVecEvents
          /\ ncalls' = ncalls + 1
          /\ ret' = [ret EXCEPT !.pc = Instr.cb]
       \/ /\ ncalls' = ncalls
          /\ ret' = [ret EXCEPT !.pc = Instr.then]
    /\ UNCHANGED <<db, ctx, trapped, tu, todo, units, handles, iter, env,
                   freed>>

\* a NULL pointer is dereferenced, or an assertion of the caller fails
VecCrash ==
    /\ Running
    /\ Instr.do = "crash"
    /\ trapped' = TRUE
    /\ UNCHANGED <<db, ctx, tu, todo, units, ncalls, ret, handles, iter, env,
                   freed>>

VecNext ==
    \/ VecCall \/ VecMake \/ VecReserve \/ VecCommit \/ VecAbort
    \/ VecPopStart \/ VecPopEnd \/ VecLen \/ VecTop
    \/ VecIterMake \/ VecIterNext \/ VecIterPeek \/ VecIterFree
    \/ VecReset \/ VecFree \/ VecAlloc \/ VecGoto \/ VecVisit \/ VecCrash

VecSpec == VecInit /\ [][VecNext]_vars

-----------------------------------------------------------------------------
(* Claims about the vectors *)

\* the flag bits a library call requires of its vector
Required(do) ==
    CASE do \in {"reserve", "pop_start", "iter_make", "reset", "free"} -> {}
      [] do \in {"commit", "abort", "pop_end"} -> {CF_VEC_RESERVED}
      [] do = "iter_free" -> {CF_VEC_ITERATED}

\* C38: on every vector at most one of a reservation, a pop and an iteration
\* is outstanding: a reserve is closed by one commit or abort, a pop_start by
\* a pop_end and an iter_make by an iter_free before any other insert, pop,
\* iteration, reset or free on that vector, and nothing is left outstanding
\* when the handler returns.
C38_OneOutstanding ==
    /\ \A n \in DbVecs \cup IndexVecs : Cardinality(VecAt(n).bits) <= 1
    /\ ret.pc = Returned =>
           \A n \in DbVecs \cup IndexVecs : VecAt(n).bits = {}
    /\ ret.pc # Returned =>
           (Instr.do \in {"reserve", "pop_start", "iter_make", "reset", "free",
                          "commit", "abort", "pop_end", "iter_free"} =>
                VecAt(Instr.vec).bits = Required(Instr.do))

\* C38 witness: the finalizer pops the current parent between the pop_start
\* and the pop_end of the path stack, and an iteration of the commit is open
\* while a store insert holds its two reservations
C38_PopInsidePop ==
    /\ ret.pc = "index_struct.children.iterate.cb.final.pop_end"
    /\ ctx["sb->path.parent_stack"].bits = {CF_VEC_RESERVED}
    /\ ctx["sb->current_parent_stack"].bits = {CF_VEC_RESERVED}


-----------------------------------------------------------------------------
(* A token handed to str2uint64() (parse.c) *)

\* number of bytes of a token that are overwritten
MaxStrEdits == 1

\* the tokens to start from: the empty one, zero, UINT64_MAX, UINT64_MAX
\* after a zero, and nineteen nines
StrSeeds ==
    { << >>,
      <<"0">>,
      <<"1", "8", "4", "4", "6", "7", "4", "4", "0", "7",
        "3", "7", "0", "9", "5", "5", "1", "6", "1", "5">>,
      <<"0", "1", "8", "4", "4", "6", "7", "4", "4", "0", "7",
        "3", "7", "0", "9", "5", "5", "1", "6", "1", "5">>,
      <<"9", "9", "9", "9", "9", "9", "9", "9", "9", "9",
        "9", "9", "9", "9", "9", "9", "9", "9", "9">> }

\* the bytes written over a byte of a token
StrChars == {"0", "1", "5", "6", "9", "a", "-"}

NoParse == [op |-> "none", str |-> << >>, ok |-> FALSE, val |-> uint64_zero]

StrInit ==
    /\ db = new_db(db_kind_nop, FALSE)
    /\ ctx = make_index_ctx
    /\ trapped = FALSE
    /\ tu = ""
    /\ todo \in StrSeeds
    /\ units = << >>
    /\ ncalls = 0
    /\ ret = NoParse
    /\ handles = {}
    /\ iter = NoIter
    /\ env = DefaultEnv
    /\ freed = {}

\* another token: one byte of the token is overwritten
StrEdit ==
    /\ ncalls < MaxStrEdits
    /\ \E i \in 1..Len(todo), c \in StrChars : todo' = [todo EXCEPT ![i] = c]
    /\ ncalls' = ncalls + 1
    /\ ret' = NoParse
    /\ UNCHANGED <<db, ctx, trapped, tu, units, handles, iter, env, freed>>

\* str2uint64(&tok, &id)
Str2uint64 ==
    /\ ret.op = "none"
    /\ \E r \in {str2uint64(todo)} :
         ret' = [op |-> "str2uint64", str |-> todo, ok |-> r.ok, val |-> r.val]
    /\ UNCHANGED <<db, ctx, trapped, tu, todo, units, ncalls, handles, iter,
                   env, freed>>

StrNext == StrEdit \/ Str2uint64

StrSpec == StrInit /\ [][StrNext]_vars

-----------------------------------------------------------------------------
(* Claims about str2uint64() *)

\* the digits of a string after its leading zeros
RECURSIVE Significant(_)
Significant(bytes) ==
    IF bytes = << >> \/ Head(bytes) # "0" THEN bytes
    ELSE Significant(Tail(bytes))

\* the digits of UINT64_MAX, 2^64 - 1
UINT64_MAX_digits ==
    <<"1", "8", "4", "4", "6", "7", "4", "4", "0", "7",
      "3", "7", "0", "9", "5", "5", "1", "6", "1", "5">>

\* a string of decimal digits, at least one
IsDecimal(bytes) ==
    /\ bytes # << >>
    /\ \A i \in 1..Len(bytes) : is_digit(bytes[i])

\* the number a string of digits writes is at most UINT64_MAX
Representable(bytes) ==
    LET s == Significant(bytes)
        m == UINT64_MAX_digits
    IN  \/ Len(s) < Len(m)
        \/ /\ Len(s) = Len(m)
           /\ ~ \E i \in 1..Len(m) :
                  /\ \A j \in 1..(i - 1) : s[j] = m[j]
                  /\ char2int(s[i]) > char2int(m[i])

\* the decimal digits of a 64-bit value, none for zero: the remainders of
\* the divisions by ten, the last digit first
RECURSIVE DecimalOf(_)
DecimalOf(val) ==
    IF val = uint64_zero THEN << >>
    ELSE LET c4 == val[4]
             c3 == (c4 % 10) * 65536 + val[3]
             c2 == (c3 % 10) * 65536 + val[2]
             c1 == (c2 % 10) * 65536 + val[1]
         IN  Append(DecimalOf(<<c1 \div 10, c2 \div 10, c3 \div 10,
                                c4 \div 10>>),
                    Digits[(c1 % 10) + 1])

\* C39: str2uint64 returns true with the exact value for every non-empty
\* string of decimal digits that writes a number of at most 2^64 - 1, and
\* returns false for every other string.
C39_ExactOrRejected ==
    ret.op = "str2uint64" =>
        IF IsDecimal(ret.str) /\ Representable(ret.str)
        THEN ret.ok /\ DecimalOf(ret.val) = Significant(ret.str)
        ELSE ~ret.ok

=============================================================================
